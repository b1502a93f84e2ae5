---------------------------- MODULE KernelProofs ----------------------------
(***************************************************************************)
(* Machine-checked proofs about Kernel: its steps are steps of Scheduler,  *)
(* whose invariants therefore hold of the whole system; the shell has the  *)
(* processor to itself and its programs once it is at the prompt; and the  *)
(* ELF loader calls the program it was asked for, whatever was loaded      *)
(* before it, for every set of files whose program headers are sound.      *)
(***************************************************************************)
EXTENDS Kernel, SchedulerProofs, FiniteSetTheorems

-----------------------------------------------------------------------------
(* The inductive invariant.                                                *)

\* The list as kernel_main creates it, read from each of its PCBs on.
BootRings == {<<1, 2, 3, 4>>, <<2, 3, 4, 1>>, <<3, 4, 1, 2>>, <<4, 1, 2, 3>>}

\* kernel_main enables interrupts, and starts the scheduler, when the tables
\* and the four processes are there.
BootOrder ==
    /\ stage \in {"idt_init", "isr_init", "remap", "gates", "mask", "processes"}
    /\ ring # <<>> => stage = "processes"
    /\ interrupts \/ scheduler_running => Len(ring) >= 4
    /\ ~scheduler_running =>
         /\ Len(ring) <= 4
         /\ \A i \in 1..Len(ring) : ring[i] = i
         /\ \A p \in Pid : state[p] \in {NONE, READY}
    /\ cpu.owner = Boot => pc[Shell] = "esperar_tecla"
    /\ Len(ring) = 4 => ring \in BootRings

TablesReady ==
    /\ idt \in [Vectors -> Handlers]
    /\ stage # "idt_init" => idt[32] = "irq0"
    /\ stage \in {"gates", "mask", "processes"} => pic_base = 32
    /\ stage = "processes" => pic_mask = Lines \ {0}

\* Whoever has cleared the interrupt flag still has the processor; and only the
\* shell loads programs.
FlagClear ==
    \A p \in Pid :
        /\ (\/ pc[p] \in {"disk", "sys_disk", "syscall"}
            \/ p # Shell /\ pc[p] \in {"exit", "halted"})
             => ~interrupts /\ cpu.owner = p
        /\ pc[p] = "elf_read" => p = Shell

\* Which processes can run: always the tasks, the shell and the programs until
\* they exit; and the process that has the processor is not blocked.
Alive ==
    /\ \A t \in Tasks : pc[t] = "task" /\ state[t] # DEAD
    /\ \A p \in Programs : state[p] = NONE \/ pc[p] = "halted" \/ state[p] \in {READY, RUNNING}
    /\ (Len(ring) >= 4 /\ pc[Shell] # "halted") => state[Shell] \in {READY, RUNNING}
    /\ (ring # <<>> /\ pc[Shell] # "halted") => state[current_process] # BLOCKED

\* A program that has become a process never lets the shell return from its
\* wait: it loops for ever, exits with the interrupt flag clear, or goes astray.
ProgramKeepsShell == Len(ring) >= 5 => pc[Shell] = "await"

\* process_block_others has blocked the tasks it has passed.
Passed ==
    pc[Shell] = "block_others" =>
        /\ walk \in 1..4
        /\ \A t \in Tasks : t < walk => state[t] = BLOCKED

ShellAlone ==
    Interactive => current_process \notin Tasks /\ \A t \in Tasks : state[t] = BLOCKED

KInv ==
    /\ pc = [p \in Pid |-> pc[p]] /\ interrupts \in BOOLEAN
    /\ BootOrder
    /\ TablesReady
    /\ FlagClear
    /\ Alive
    /\ ProgramKeepsShell
    /\ Passed
    /\ ShellAlone

-----------------------------------------------------------------------------
(* Facts about the state.                                                  *)

\* The process that executes is the current one, after the boot.
LEMMA Executing ==
    ASSUME IInv, KInv, NEW p, Executes(p)
    PROVE  /\ scheduler_running /\ ring # <<>> /\ current_process = p
           /\ p \in Pid /\ Len(ring) \in Nat /\ Len(ring) >= 4
           /\ state[p] # NONE /\ p <= Len(ring)
<1>1. scheduler_running /\ ring # <<>> /\ current_process = p
  BY DEF Executes, IInv, Phases, Boot
<1>2. p \in Pid /\ state[p] # NONE
  BY <1>1, CurrentProcess
<1>3. Len(ring) \in Nat /\ Len(ring) >= 4
  BY <1>1 DEF IInv, TypeOK, KInv, BootOrder
<1>4. p <= Len(ring)
  BY <1>2 DEF IInv, PidsInUse
<1> QED BY <1>1, <1>2, <1>3, <1>4

\* What follows a process in the list before the first program is created.
LEMMA SuccessorInBootRing ==
    ASSUME ring \in BootRings, NEW p \in 1..4
    PROVE  Successor(p) = (IF p = 4 THEN 1 ELSE p + 1)
<1>1. Len(ring) = 4
  BY DEF BootRings
<1> DEFINE k == CHOOSE k \in 1..Len(ring) : ring[k] = p
<1>2. \E j \in 1..Len(ring) : ring[j] = p
  <2>1. CASE ring = <<1, 2, 3, 4>>
    BY <2>1, <1>1
  <2>2. CASE ring = <<2, 3, 4, 1>>
    BY <2>2, <1>1
  <2>3. CASE ring = <<3, 4, 1, 2>>
    BY <2>3, <1>1
  <2>4. CASE ring = <<4, 1, 2, 3>>
    BY <2>4, <1>1
  <2> QED BY <2>1, <2>2, <2>3, <2>4 DEF BootRings
<1>3. k \in 1..Len(ring) /\ ring[k] = p
  BY <1>2
<1>4. Successor(p) = IF k = Len(ring) THEN ring[1] ELSE ring[k + 1]
  BY DEF Successor
<1> HIDE DEF k
<1> QED BY <1>1, <1>3, <1>4 DEF BootRings

\* The shell executes elsewhere than in its wait: there are four processes.
LEMMA FourProcesses ==
    ASSUME IInv, KInv, Executes(Shell), pc[Shell] # "await"
    PROVE  ring \in BootRings
<1>1. Len(ring) \in Nat /\ Len(ring) >= 4
  BY Executing
<1>2. Len(ring) < 5
  BY <1>1 DEF KInv, ProgramKeepsShell
<1>3. \A n \in Nat : (n >= 4 /\ n < 5) => n = 4
  OBVIOUS
<1>4. Len(ring) = 4
  BY <1>1, <1>2, <1>3
<1> QED BY <1>4 DEF KInv, BootOrder

\* Reading the boot list from another of its elements on.
LEMMA BootRingRotates ==
    ASSUME ring \in BootRings, NEW j \in 1..4
    PROVE  Rotate(ring, j) \in BootRings
<1> DEFINE r == Rotate(ring, j)
<1>1. ring \in Seq(1..4) /\ Len(ring) = 4
  <2>1. CASE ring = <<1, 2, 3, 4>>
    BY <2>1
  <2>2. CASE ring = <<2, 3, 4, 1>>
    BY <2>2
  <2>3. CASE ring = <<3, 4, 1, 2>>
    BY <2>3
  <2>4. CASE ring = <<4, 1, 2, 3>>
    BY <2>4
  <2> QED BY <2>1, <2>2, <2>3, <2>4 DEF BootRings
<1>2. r \in Seq(1..4) /\ Len(r) = 4
  BY <1>1, RotateShape
<1>3. \A i \in 1..4 : r[i] = (IF i + j - 1 <= 4 THEN ring[i + j - 1] ELSE ring[i + j - 5])
  BY <1>1 DEF Rotate
<1> HIDE DEF r
<1>4. r = <<r[1], r[2], r[3], r[4]>>
  BY <1>2
<1>5. \/ r[1] = 1 /\ r[2] = 2 /\ r[3] = 3 /\ r[4] = 4
      \/ r[1] = 2 /\ r[2] = 3 /\ r[3] = 4 /\ r[4] = 1
      \/ r[1] = 3 /\ r[2] = 4 /\ r[3] = 1 /\ r[4] = 2
      \/ r[1] = 4 /\ r[2] = 1 /\ r[3] = 2 /\ r[4] = 3
  BY <1>3 DEF BootRings
<1>6. r \in BootRings
  BY <1>4, <1>5 DEF BootRings
<1> QED BY <1>6 DEF r

-----------------------------------------------------------------------------
(* Steps that leave the scheduler's variables alone.                       *)

\* The shell goes from one place in its code to another.
LEMMA ShellMoves ==
    ASSUME IInv, KInv, NEW from, NEW to, Goes(Shell, from, to),
           UNCHANGED <<vars, tables, stage>>,
           interrupts' \in BOOLEAN,
           from # "halted", to # "halted",
           from = "await" => to = "await" \/ Len(ring) < 5,
           to \in {"disk", "sys_disk", "syscall"} => ~interrupts',
           to = "block_others" => /\ walk' \in 1..4
                                  /\ \A t \in Tasks : t < walk' => state[t] = BLOCKED,
           Interactive \/ Interactive' => \A t \in Tasks : state[t] = BLOCKED
    PROVE  KInv'
<1> USE BootAssumption DEF KInv
<1>1. /\ scheduler_running /\ ring # <<>> /\ current_process = Shell
      /\ cpu.owner = Shell /\ Len(ring) >= 4 /\ Len(ring) \in Nat /\ stage = "processes"
  BY Executing DEF Goes, Executes, BootOrder
<1>2. /\ pc[Shell] = from /\ pc'[Shell] = to
      /\ \A p \in Pid : p # Shell => pc'[p] = pc[p]
      /\ pc' = [q \in Pid |-> pc'[q]]
  BY DEF Goes
<1>3. UNCHANGED <<ring, state, scheduler_running, cpu, stage, idt, pic_base, pic_mask,
                  current_process>>
  BY DEF vars, tables, current_process
<1>4. BootOrder'
  BY <1>1, <1>2, <1>3 DEF BootOrder, Boot, Shell
<1>5. TablesReady'
  BY <1>3 DEF TablesReady
<1>6. FlagClear'
  BY <1>1, <1>2, <1>3 DEF FlagClear
<1>7. Alive'
  <2>1. \A t \in Tasks : t \in Pid /\ t # Shell
    BY SizeAssumption DEF Tasks, Shell, Pid
  <2>2. \A p \in Programs : p \in Pid /\ p # Shell
    BY DEF Programs, Shell, Pid
  <2>3. \A t \in Tasks : pc'[t] = "task" /\ state'[t] # DEAD
    BY <1>2, <1>3, <2>1 DEF Alive
  <2>4. \A p \in Programs : state'[p] = NONE \/ pc'[p] = "halted" \/ state'[p] \in {READY, RUNNING}
    BY <1>2, <1>3, <2>2 DEF Alive
  <2>5. state[Shell] \in {READY, RUNNING} /\ state[current_process] # BLOCKED
    BY <1>1, <1>2 DEF Alive
  <2> QED BY <1>3, <2>3, <2>4, <2>5 DEF Alive
<1>8. ProgramKeepsShell'
  BY <1>1, <1>2, <1>3 DEF ProgramKeepsShell
<1>9. Passed'
  BY <1>2, <1>3 DEF Passed
<1>10. ShellAlone'
  BY <1>1, <1>2, <1>3 DEF ShellAlone, Tasks, Shell
<1> QED BY <1>2, <1>4, <1>5, <1>6, <1>7, <1>8, <1>9, <1>10

\* A program that has become a process goes from one place to another.
LEMMA ProgramMoves ==
    ASSUME IInv, KInv, NEW p \in Programs, NEW from, NEW to, Goes(p, from, to),
           UNCHANGED <<vars, walk, tables, stage>>,
           interrupts' \in BOOLEAN,
           from # "halted", to \notin {"halted", "elf_read"},
           to \in {"disk", "sys_disk", "syscall", "exit"} => ~interrupts'
    PROVE  KInv'
<1> USE BootAssumption DEF KInv
<1>1. /\ scheduler_running /\ ring # <<>> /\ current_process = p
      /\ cpu.owner = p /\ Len(ring) >= 4 /\ Len(ring) \in Nat /\ stage = "processes"
      /\ p \in Pid /\ p # Shell /\ p \notin Tasks
  BY Executing DEF Goes, Executes, BootOrder, Programs, Shell, Tasks
<1>2. /\ pc[p] = from /\ pc'[p] = to /\ pc'[Shell] = pc[Shell]
      /\ \A q \in Pid : q # p => pc'[q] = pc[q]
      /\ pc' = [q \in Pid |-> pc'[q]]
  BY <1>1 DEF Goes
<1>3. UNCHANGED <<ring, state, scheduler_running, cpu, stage, idt, pic_base, pic_mask,
                  current_process, walk>>
  BY DEF vars, tables, current_process
<1>4. BootOrder'
  BY <1>1, <1>2, <1>3 DEF BootOrder, Boot, Shell
<1>5. TablesReady'
  BY <1>3 DEF TablesReady
<1>6. FlagClear'
  BY <1>1, <1>2, <1>3 DEF FlagClear
<1>7. Alive'
  <2>1. \A t \in Tasks : t \in Pid /\ t # p
    BY <1>1, SizeAssumption DEF Tasks, Shell, Pid
  <2>3. \A t \in Tasks : pc'[t] = "task" /\ state'[t] # DEAD
    BY <1>2, <1>3, <2>1 DEF Alive
  <2>4. \A q \in Programs : state'[q] = NONE \/ pc'[q] = "halted" \/ state'[q] \in {READY, RUNNING}
    <3>1. \A q \in Programs : q \in Pid
      BY DEF Programs
    <3> QED BY <1>2, <1>3, <3>1 DEF Alive
  <2> QED BY <1>2, <1>3, <2>3, <2>4 DEF Alive
<1>8. ProgramKeepsShell'
  BY <1>1, <1>2, <1>3 DEF ProgramKeepsShell
<1>9. Passed'
  BY <1>2, <1>3 DEF Passed
<1>10. ShellAlone'
  BY <1>1, <1>2, <1>3 DEF ShellAlone, Interactive
<1> QED BY <1>2, <1>4, <1>5, <1>6, <1>7, <1>8, <1>9, <1>10

-----------------------------------------------------------------------------
(* Kernel is a way to use Scheduler.                                       *)

\* Every step of the system is a step of Scheduler, or leaves it alone.
LEMMA KernelSchedules ==
    ASSUME IInv, KInv, [KernelNext]_kvars
    PROVE  [Next]_vars
<1>1. CASE kernel_main
  <2>1. CASE BootTables \/ BootEnables
    BY <2>1 DEF BootTables, Step, BootEnables
  <2>2. CASE BootCreates
    <3>1. Len(ring) + 1 \in 1..Len(BootTable)
      BY <2>2 DEF BootCreates, BootTable, IInv, TypeOK
    <3>2. PICK priority \in Priorities : process_create(priority)
      BY <2>2, <3>1, BootAssumption DEF BootCreates
    <3> QED BY <3>2 DEF Next
  <2>3. CASE BootStarts
    BY <2>3 DEF BootStarts, Next
  <2> QED BY <1>1, <2>1, <2>2, <2>3 DEF kernel_main
<1>2. CASE irq0
  BY <1>2 DEF irq0, Next
<1>3. CASE DiskFails \/ UserTypes
  BY <1>3 DEF DiskFails, UserTypes, KeyPressed, CommandDisk, CommandSys, CommandExit,
              CommandRun, Quietly
<1>4. ASSUME NEW p, ProgramStep(p) PROVE [Next]_vars
  BY <1>4 DEF ProgramStep, SystemCall, SystemCallReturns, NoSystemCall, ProgramHalts,
              SYS_EXIT, Exits, Quietly, Next
<1>5. CASE ShellStep
  <2>1. CASE process_block_others
    <3>1. walk \in Pid
      <4>1. walk \in 1..4
        BY <2>1 DEF process_block_others, Goes, KInv, Passed
      <4> QED BY <4>1, BootAssumption, SizeAssumption DEF Shell, Pid
    <3>2. process_block(walk) \/ UNCHANGED vars
      BY <2>1 DEF process_block_others
    <3> QED BY <3>1, <3>2 DEF Next
  <2>2. CASE CreateProgram
    <3>1. PRIORITY_NORMAL \in Priorities
      BY BootAssumption DEF BootTable
    <3> QED BY <2>2, <3>1 DEF CreateProgram, Next
  <2>3. CASE \/ BlockingDone \/ DiskDone \/ SysDone
             \/ FileArrives \/ LoadFails \/ ProgramCalled
             \/ ProgramReturns \/ CreateFails \/ AwaitProgram
    BY <2>3 DEF BlockingDone, DiskDone, SysDone, FileArrives, LoadFails, ProgramCalled,
                ProgramReturns, CreateFails, AwaitProgram, Quietly
  <2> QED BY <1>4, <1>5, <2>1, <2>2, <2>3 DEF ShellStep
<1>6. CASE UNCHANGED kvars
  BY <1>6 DEF kvars
<1>7. CASE \E p \in Programs : ReturnsAgain(p) \/ RunsAstray(p)
  BY <1>7 DEF ReturnsAgain, RunsAstray, Quietly
<1> QED BY <1>1, <1>2, <1>3, <1>4, <1>5, <1>6, <1>7 DEF KernelNext

-----------------------------------------------------------------------------
(* The boot sequence.                                                      *)

\* The invariant holds when GRUB enters the kernel.
LEMMA KernelInitKInv == KernelInit => KInv
<1> SUFFICES ASSUME KernelInit PROVE KInv
  OBVIOUS
<1> USE BootAssumption, SizeAssumption
<1>1. /\ ring = <<>> /\ Len(ring) = 0 /\ ~scheduler_running /\ interrupts = FALSE
      /\ cpu.owner = Boot /\ stage = "idt_init"
      /\ \A p \in Pid : state[p] = NONE
  BY DEF KernelInit, Init, Context
<1>2. pc = [p \in Pid |-> EntryPoint(p)]
  BY DEF KernelInit
<1>3. /\ \A p \in Pid : pc[p] \in {"task", "esperar_tecla", "program"}
      /\ pc[Shell] = "esperar_tecla"
      /\ \A t \in Tasks : t \in Pid /\ pc[t] = "task"
  BY <1>2 DEF EntryPoint, Tasks, Shell, Pid
<1>4. pc = [p \in Pid |-> pc[p]]
  BY <1>2
<1>5. BootOrder /\ TablesReady
  <2>1. BootOrder
    BY <1>1, <1>3 DEF BootOrder
  <2>2. TablesReady
    BY <1>1 DEF TablesReady, KernelInit, TablesInit, Vectors, Handlers
  <2> QED BY <2>1, <2>2
<1>6. FlagClear
  BY <1>3 DEF FlagClear
<1>7. Alive
  BY <1>1, <1>3 DEF Alive, Programs, NONE, DEAD
<1>8. ProgramKeepsShell /\ Passed /\ ShellAlone
  BY <1>1, <1>3 DEF ProgramKeepsShell, Passed, ShellAlone, Interactive
<1> QED BY <1>1, <1>4, <1>5, <1>6, <1>7, <1>8 DEF KInv

\* Filling the tables.
LEMMA TablesPreserve ==
    ASSUME IInv, KInv, BootTables
    PROVE  KInv'
<1>1. UNCHANGED <<ring, state, scheduler_running, cpu, pc, interrupts, walk, current_process>>
  BY DEF BootTables, Step, vars, current_process
<1>2. ring = <<>>
  BY DEF BootTables, Step, KInv, BootOrder
<1>3. stage' \in {"isr_init", "remap", "gates", "mask", "processes"}
  BY DEF BootTables, Step
<1>4. BootOrder'
  BY <1>1, <1>2, <1>3 DEF KInv, BootOrder
<1>5. TablesReady'
  <2>1. CASE Step("idt_init", "isr_init", idt_init)
    BY <2>1 DEF Step, idt_init, TablesReady, Vectors, Handlers
  <2>2. CASE Step("isr_init", "remap", isr_init)
    <3> DEFINE gates == [v \in Vectors |-> IF v \in ExceptionGates THEN "isr" ELSE idt[v]]
    <3>1. gates \in [Vectors -> Handlers]
      BY DEF KInv, TablesReady, Handlers
    <3>2. idt' = [gates EXCEPT ![32] = "irq0", ![33] = "irq1"] /\ stage' = "remap"
      BY <2>2 DEF Step, isr_init
    <3> HIDE DEF gates
    <3>3. 32 \in Vectors /\ 33 \in Vectors /\ 32 # 33 /\ {"irq0", "irq1"} \subseteq Handlers
      BY DEF Vectors, Handlers
    <3>4. idt' \in [Vectors -> Handlers] /\ idt'[32] = "irq0"
      BY <3>1, <3>2, <3>3
    <3> QED BY <3>2, <3>4 DEF TablesReady
  <2>3. CASE Step("remap", "gates", RemapPic)
    BY <2>3 DEF Step, RemapPic, KInv, TablesReady
  <2>4. CASE Step("gates", "mask", SetGates)
    <3>1. /\ idt \in [Vectors -> Handlers] /\ idt[32] = "irq0" /\ pic_base' = 32
          /\ idt' = [idt EXCEPT ![8] = "irq0", ![14] = "irq1", ![128] = "int80_handler"]
          /\ stage' = "mask"
      BY <2>4 DEF Step, SetGates, KInv, TablesReady
    <3>2. /\ {8, 14, 32, 128} \subseteq Vectors
          /\ {"irq0", "irq1", "int80_handler"} \subseteq Handlers
      BY DEF Vectors, Handlers
    <3>3. idt' \in [Vectors -> Handlers] /\ idt'[32] = "irq0"
      BY <3>1, <3>2
    <3> QED BY <3>1, <3>3 DEF TablesReady
  <2>5. CASE Step("mask", "processes", UnmaskTimer)
    BY <2>5 DEF Step, UnmaskTimer, KInv, TablesReady
  <2> QED BY <2>1, <2>2, <2>3, <2>4, <2>5 DEF BootTables
<1> QED BY <1>1, <1>4, <1>5 DEF KInv, FlagClear, Alive, ProgramKeepsShell, Passed,
                              ShellAlone, Interactive

\* Creating the processes of the boot table.
LEMMA BootCreatesPreserve ==
    ASSUME IInv, KInv, BootCreates
    PROVE  KInv'
<1> USE BootAssumption, SizeAssumption
<1> DEFINE new == Len(ring) + 1
<1>1. /\ BootExecutes /\ ~scheduler_running /\ ~interrupts /\ stage = "processes"
      /\ Len(ring) \in Nat /\ new <= 4 /\ new \in Pid /\ ring \in Seq(Pid)
  <2>1. /\ BootExecutes /\ ~scheduler_running /\ ~interrupts /\ stage = "processes"
        /\ ring \in Seq(Pid) /\ Len(ring) \in Nat
    BY DEF BootCreates, BootExecutes, IInv, TypeOK
  <2>2. Len(ring) < 4
    BY <2>1 DEF BootCreates, BootTable
  <2>3. MaxPid \in Nat /\ 4 <= MaxPid
    BY DEF Shell, Pid
  <2> QED BY <2>1, <2>2, <2>3 DEF Pid
<1>2. /\ ring' = Append(ring, new) /\ state' = [state EXCEPT ![new] = READY]
      /\ UNCHANGED <<scheduler_running, cpu, pc, interrupts, walk, stage,
                     idt, pic_base, pic_mask>>
  BY DEF BootCreates, process_create, next_pid, deviceVars, tables
<1>3. Len(ring') = new /\ ring' # <<>> /\ \A i \in 1..new : ring'[i] = i
  BY <1>1, <1>2 DEF KInv, BootOrder
<1>4. \A p \in Pid : state'[p] \in {NONE, READY} /\ (p = new => state'[p] = READY)
  BY <1>1, <1>2 DEF KInv, BootOrder, IInv, TypeOK
<1>5. pc'[Shell] = "esperar_tecla"
  BY <1>1, <1>2 DEF KInv, BootOrder, BootExecutes
<1>6. new = 4 => ring' \in BootRings
  <2> SUFFICES ASSUME new = 4 PROVE ring' = <<1, 2, 3, 4>>
    BY DEF BootRings
  <2>1. ring' = <<ring'[1], ring'[2], ring'[3], ring'[4]>>
    <3>1. ring' \in Seq(Pid) /\ Len(ring') = 4
      BY <1>1, <1>2, <1>3
    <3> QED BY <3>1
  <2>2. ring'[1] = 1 /\ ring'[2] = 2 /\ ring'[3] = 3 /\ ring'[4] = 4
    BY <1>3
  <2> QED BY <2>1, <2>2
<1>7. BootOrder'
  BY <1>1, <1>2, <1>3, <1>4, <1>5, <1>6 DEF BootOrder
<1>8. TablesReady' /\ FlagClear'
  BY <1>2 DEF KInv, TablesReady, FlagClear
<1>9. Alive'
  <2>1. current_process' \in Pid
    <3>1. ring'[1] = 1 /\ 1 \in Pid
      BY <1>1, <1>3 DEF Pid, Shell
    <3> QED BY <1>3, <3>1 DEF current_process
  <2>2. \A t \in Tasks : t \in Pid /\ pc'[t] = "task"
    BY <1>2 DEF KInv, Alive, Tasks, Shell, Pid
  <2>3. \A p \in Programs : p \in Pid
    BY DEF Programs
  <2>4. Len(ring') >= 4 => state'[Shell] = READY
    BY <1>1, <1>3, <1>4 DEF Shell
  <2>5. \A t \in Tasks : pc'[t] = "task" /\ state'[t] # DEAD
    BY <1>4, <2>2 DEF READY, DEAD, NONE
  <2>6. \A p \in Programs : state'[p] = NONE \/ state'[p] \in {READY, RUNNING}
    BY <1>4, <2>3
  <2>7. state'[current_process'] # BLOCKED
    BY <1>4, <2>1 DEF READY, BLOCKED, NONE
  <2> HIDE DEF new
  <2> QED BY <2>4, <2>5, <2>6, <2>7 DEF Alive
<1>10. ProgramKeepsShell' /\ Passed' /\ ShellAlone'
  BY <1>1, <1>3, <1>5 DEF ProgramKeepsShell, Passed, ShellAlone, Interactive
<1> QED BY <1>2, <1>7, <1>8, <1>9, <1>10 DEF KInv

\* Enabling interrupts.
LEMMA BootEnablesPreserve ==
    ASSUME IInv, KInv, BootEnables
    PROVE  KInv'
<1> USE BootAssumption, SizeAssumption
<1>1. /\ cpu.owner = Boot /\ Len(ring) = 4 /\ interrupts' = TRUE
      /\ UNCHANGED <<ring, state, scheduler_running, cpu, pc, walk, stage,
                     idt, pic_base, pic_mask, current_process>>
  BY DEF BootEnables, BootExecutes, BootTable, vars, deviceVars, tables, current_process
<1>2. BootOrder' /\ TablesReady'
  BY <1>1 DEF KInv, BootOrder, TablesReady
<1>3. FlagClear'
  BY <1>1 DEF KInv, FlagClear, Boot, Pid
<1>4. Alive' /\ ProgramKeepsShell' /\ Passed' /\ ShellAlone'
  BY <1>1 DEF KInv, Alive, ProgramKeepsShell, Passed, ShellAlone, Interactive
<1> QED BY <1>1, <1>2, <1>3, <1>4 DEF KInv

\* Starting the scheduler and loading the first process.
LEMMA BootStartsPreserve ==
    ASSUME IInv, KInv, BootStarts
    PROVE  KInv'
<1> USE BootAssumption, SizeAssumption
<1>1. /\ cpu.owner = Boot /\ interrupts = TRUE /\ interrupts' = TRUE
      /\ UNCHANGED <<ring, pc, walk, stage, idt, pic_base, pic_mask, current_process>>
  BY DEF BootStarts, scheduler_start, LoadFirst, BootExecutes, deviceVars, tables,
         current_process, KInv
<1>2. /\ pc[Shell] = "esperar_tecla" /\ Len(ring) >= 4 /\ Len(ring) \in Nat
      /\ ring # <<>> /\ stage = "processes"
  BY <1>1 DEF KInv, BootOrder, IInv, TypeOK
<1>3. current_process \in Pid /\ state[current_process] # NONE
  BY <1>2, CurrentProcess
<1>4. FlagClear'
  BY <1>1 DEF KInv, FlagClear
<1>5. TablesReady' /\ ProgramKeepsShell' /\ Passed' /\ ShellAlone'
  BY <1>1, <1>2 DEF KInv, TablesReady, ProgramKeepsShell, Passed, ShellAlone, Interactive
<1>6. CASE scheduler_start
  <2>1. /\ scheduler_running' = TRUE /\ cpu' = cpu
        /\ state' = [state EXCEPT ![current_process] = RUNNING]
    BY <1>6 DEF scheduler_start
  <2>2. BootOrder'
    BY <1>1, <1>2, <2>1 DEF KInv, BootOrder
  <2>3. \A p \in Pid : state'[p] = IF p = current_process THEN RUNNING ELSE state[p]
    BY <2>1 DEF IInv, TypeOK
  <2>4. Alive'
    <3>1. \A t \in Tasks : t \in Pid /\ pc'[t] = "task" /\ state'[t] # DEAD
      BY <1>1, <2>3 DEF KInv, Alive, Tasks, Shell, Pid, RUNNING, DEAD
    <3>2. \A p \in Programs : p \in Pid
      BY DEF Programs
    <3>3. \A p \in Programs : state'[p] = NONE \/ pc'[p] = "halted" \/ state'[p] \in {READY, RUNNING}
      BY <1>1, <2>3, <3>2 DEF KInv, Alive
    <3>4. state'[Shell] \in {READY, RUNNING} /\ state'[current_process] # BLOCKED
      BY <1>2, <1>3, <2>3 DEF KInv, Alive, RUNNING, BLOCKED
    <3> QED BY <1>1, <3>1, <3>3, <3>4 DEF Alive
  <2> QED BY <1>1, <1>4, <1>5, <2>2, <2>4 DEF KInv
<1>7. CASE LoadFirst
  <2>1. /\ scheduler_running /\ cpu' = esp[current_process]
        /\ UNCHANGED <<state, scheduler_running>>
    BY <1>7 DEF LoadFirst
  <2>2. cpu'.owner = current_process
    <3>1. cpu.owner # current_process
      BY <1>1, <1>3 DEF Boot, Pid
    <3>2. esp[current_process] = Context(current_process, position[current_process])
      BY <1>3, <3>1 DEF IInv, ContextsIntact
    <3> QED BY <2>1, <3>2 DEF Context
  <2>3. BootOrder'
    BY <1>1, <1>2, <1>3, <2>1, <2>2 DEF KInv, BootOrder, Boot, Pid
  <2>4. Alive'
    BY <1>1, <2>1 DEF KInv, Alive
  <2> QED BY <1>1, <1>4, <1>5, <2>3, <2>4 DEF KInv
<1> QED BY <1>6, <1>7 DEF BootStarts

-----------------------------------------------------------------------------
(* The timer.                                                              *)

\* What a switch does: the process it goes to was READY, as long as the shell
\* has not exited.
LEMMA Switch ==
    ASSUME MaxPid <= MAX_PROCESSES + 1, IInv, KInv, TickSwitches, interrupts
    PROVE  /\ scheduler_running /\ UNCHANGED scheduler_running
           /\ current_process \in Pid /\ state[current_process] # NONE
           /\ current_process' \in Pid /\ state[current_process'] # NONE
           /\ state' = [state EXCEPT ![current_process] = READY,
                                     ![current_process'] = RUNNING]
           /\ cpu'.owner = current_process'
           /\ ring' # <<>> /\ Len(ring') = Len(ring)
           /\ ring \in BootRings => ring' \in BootRings
           /\ pc[Shell] # "halted" => state[current_process'] = READY
<1> USE BootAssumption, SizeAssumption
<1>1. /\ Tick /\ scheduler_running /\ UNCHANGED scheduler_running
      /\ tick_count + 1 >= ticks_quantum[current_process]
  BY DEF TickSwitches, QuantumEnds, Tick
<1>2. /\ ring # <<>> /\ current_process \in Pid /\ state[current_process] # NONE
      /\ cpu.owner = current_process
  BY <1>1, TickCharges
<1>3. PICK k \in 0..MAX_PROCESSES :
        /\ ring[Candidate(k)] # current_process
        /\ state' = [state EXCEPT ![current_process] = READY,
                                  ![ring[Candidate(k)]] = RUNNING]
        /\ ring' = Rotate(ring, Candidate(k))
        /\ cpu' = esp[ring[Candidate(k)]]
  BY DEF TickSwitches
<1>4. ring \in Seq(Pid) /\ Len(ring) \in Nat \ {0} /\ k \in Nat
  BY <1>2 DEF IInv, TypeOK
<1>5. Candidate(k) \in 1..Len(ring)
  BY <1>2, <1>4, CandidateInList
<1>6. Len(ring') = Len(ring) /\ ring'[1] = ring[Candidate(k)]
  BY <1>3, <1>4, <1>5, RotateShape
<1>7. ring' # <<>> /\ current_process' = ring[Candidate(k)]
  BY <1>4, <1>6 DEF current_process
<1>8. current_process' \in Pid /\ state[current_process'] # NONE
  BY <1>5, <1>7, RingElements DEF IInv
<1>9. cpu'.owner = current_process'
  <2>1. esp[current_process'] = Context(current_process', position[current_process'])
    BY <1>2, <1>3, <1>7, <1>8 DEF IInv, ContextsIntact
  <2> QED BY <1>3, <1>7, <2>1 DEF Context
<1>10. ring \in BootRings => ring' \in BootRings
  <2>1. ring \in BootRings => Len(ring) = 4
    BY DEF BootRings
  <2> QED BY <1>3, <1>5, <2>1, BootRingRotates
<1>11. ASSUME pc[Shell] # "halted" PROVE state[current_process'] = READY
  <2>1. state[Shell] \in {READY, RUNNING}
    BY <1>1, <1>11 DEF KInv, Alive, BootOrder
  <2>2. SkipsUnlessIdle
    <3>1. [Next]_vars
      BY DEF Next, scheduler_tick
    <3> QED BY <3>1, OnlyReadyStep
  <2>3. current_process' # current_process /\ current_process # NULL
    BY <1>2, <1>3, <1>7 DEF NULL, Pid
  <2> QED BY <2>1, <2>2, <2>3 DEF SkipsUnlessIdle, READY, RUNNING, NONE, DEAD, BLOCKED
<1> QED BY <1>1, <1>2, <1>3, <1>6, <1>7, <1>8, <1>9, <1>10, <1>11

\* A tick preserves the invariant.
LEMMA TickPreserves ==
    ASSUME MaxPid <= MAX_PROCESSES + 1, IInv, KInv, irq0
    PROVE  KInv'
<1> USE BootAssumption, SizeAssumption
<1>1. /\ interrupts = TRUE /\ interrupts' = TRUE /\ scheduler_running
      /\ UNCHANGED <<scheduler_running, pc, walk, stage, idt, pic_base, pic_mask>>
  BY DEF irq0, deviceVars, tables, scheduler_tick, TickInQuantum, TickKeeps, TickSwitches,
         QuantumEnds, Tick, KInv
<1>2. FlagClear' /\ TablesReady'
  BY <1>1 DEF KInv, FlagClear, TablesReady
<1>3. CASE ~TickSwitches
  <2>1. UNCHANGED <<ring, state, cpu, current_process>>
    BY <1>3 DEF irq0, scheduler_tick, TickInQuantum, TickKeeps, current_process
  <2>2. BootOrder' /\ Alive'
    BY <1>1, <2>1 DEF KInv, BootOrder, Alive
  <2>3. ProgramKeepsShell' /\ Passed' /\ ShellAlone'
    BY <1>1, <2>1 DEF KInv, ProgramKeepsShell, Passed, ShellAlone, Interactive
  <2> QED BY <1>1, <1>2, <2>2, <2>3 DEF KInv
<1>4. CASE TickSwitches
  <2> DEFINE c == current_process
             next == current_process'
  <2>1. /\ c \in Pid /\ state[c] # NONE /\ next \in Pid /\ state[next] # NONE
        /\ state' = [state EXCEPT ![c] = READY, ![next] = RUNNING]
        /\ cpu'.owner = next /\ ring' # <<>> /\ Len(ring') = Len(ring)
        /\ ring \in BootRings => ring' \in BootRings
        /\ pc[Shell] # "halted" => state[next] = READY
    BY <1>1, <1>4, Switch
  <2>2. \A p \in Pid : state'[p] = IF p = next THEN RUNNING ELSE IF p = c THEN READY ELSE state[p]
    BY <2>1 DEF IInv, TypeOK
  <2>3. ring # <<>> /\ Len(ring) >= 4 /\ Len(ring) \in Nat
    BY <1>1 DEF KInv, BootOrder, IInv, Phases, TypeOK
  <2>4. BootOrder'
    <3>1. stage = "processes" /\ stage' = "processes"
      BY <1>1, <2>3 DEF KInv, BootOrder
    <3>2. Len(ring') = 4 => ring' \in BootRings
      BY <1>1, <2>1 DEF KInv, BootOrder
    <3>3. scheduler_running' /\ Len(ring') >= 4
      BY <1>1, <2>1, <2>3 DEF KInv, BootOrder
    <3>4. cpu'.owner # Boot
      BY <2>1 DEF Boot, Pid
    <3> QED BY <3>1, <3>2, <3>3, <3>4 DEF BootOrder
  <2>10. state'[current_process'] # BLOCKED
    <3>1. state'[next] = RUNNING
      BY <2>1, <2>2
    <3> QED BY <3>1 DEF RUNNING, BLOCKED
  <2> HIDE DEF c, next
  <2>5. Alive'
    <3>1. \A t \in Tasks : t \in Pid /\ pc'[t] = "task" /\ state'[t] # DEAD
      <4>1. \A t \in Tasks : t \in Pid
        BY DEF Tasks, Shell, Pid
      <4>2. \A t \in Tasks : pc[t] = "task" /\ state[t] # DEAD
        BY DEF KInv, Alive
      <4> QED BY <1>1, <2>2, <4>1, <4>2 DEF RUNNING, READY, DEAD
    <3>2. \A p \in Programs : p \in Pid
      BY DEF Programs
    <3>3. \A p \in Programs : state'[p] = NONE \/ pc'[p] = "halted" \/ state'[p] \in {READY, RUNNING}
      BY <1>1, <2>1, <2>2, <3>2 DEF KInv, Alive
    <3>4. pc'[Shell] # "halted" => state'[Shell] \in {READY, RUNNING}
      BY <1>1, <2>2, <2>3 DEF KInv, Alive
    <3> QED BY <2>10, <3>1, <3>3, <3>4 DEF Alive
  <2>6. ProgramKeepsShell'
    BY <1>1, <2>1 DEF KInv, ProgramKeepsShell
  <2>7. \A t \in Tasks : (pc[Shell] # "halted" /\ state[t] = BLOCKED) => state'[t] = BLOCKED
    <3>1. pc[Shell] # "halted" => state[c] # BLOCKED /\ state[next] # BLOCKED
      BY <2>1, <2>3 DEF KInv, Alive, c, READY, BLOCKED
    <3>2. \A t \in Tasks : t \in Pid
      BY DEF Tasks, Shell, Pid
    <3> QED BY <2>2, <3>1, <3>2
  <2>8. Passed'
    BY <1>1, <2>7 DEF KInv, Passed
  <2>9. ShellAlone'
    <3>1. ASSUME Interactive
          PROVE  next \notin Tasks /\ \A t \in Tasks : state'[t] = BLOCKED
      <4>1. pc[Shell] # "halted"
        BY <3>1 DEF Interactive
      <4>2. \A t \in Tasks : state[t] = BLOCKED
        BY <3>1 DEF KInv, ShellAlone
      <4> QED BY <2>1, <2>7, <4>1, <4>2 DEF READY, BLOCKED
    <3> QED BY <1>1, <3>1 DEF ShellAlone, Interactive, next
  <2> QED BY <1>1, <1>2, <2>4, <2>5, <2>6, <2>8, <2>9 DEF KInv
<1> QED BY <1>3, <1>4

-----------------------------------------------------------------------------
(* The shell.                                                              *)

\* A key has been pressed: process_block_others begins with the first task.
LEMMA KeyPressedPreserves ==
    ASSUME IInv, KInv, KeyPressed
    PROVE  KInv'
<1>1. /\ Goes(Shell, "esperar_tecla", "block_others") /\ walk' = Successor(Shell)
      /\ UNCHANGED <<vars, interrupts, tables, stage>>
  BY DEF KeyPressed, deviceVars
<1>2. ring \in BootRings
  BY <1>1, FourProcesses DEF Goes
<1>3. walk' = 1
  BY <1>1, <1>2, SuccessorInBootRing DEF Shell
<1>4. interrupts' \in BOOLEAN /\ ~Interactive /\ ~Interactive'
  BY <1>1, BootAssumption DEF KInv, Interactive, Goes
<1> QED BY <1>1, <1>3, <1>4, ShellMoves DEF Tasks

\* A turn of the loop of process_block_others blocks the task it is at.
LEMMA BlockOthersPreserves ==
    ASSUME IInv, KInv, process_block_others
    PROVE  KInv'
<1> USE BootAssumption, SizeAssumption
<1>1. /\ Goes(Shell, "block_others", "block_others") /\ walk # Shell
      /\ walk' = Successor(walk)
      /\ UNCHANGED <<interrupts, stage, idt, pic_base, pic_mask>>
  BY DEF process_block_others, deviceVars, tables
<1>2. /\ scheduler_running /\ ring # <<>> /\ current_process = Shell
      /\ Len(ring) \in Nat /\ Len(ring) >= 4 /\ Executes(Shell)
      /\ pc[Shell] = "block_others" /\ pc' = pc
  BY <1>1, Executing DEF Goes, KInv
<1>3. ring \in BootRings
  BY <1>2, FourProcesses
<1>4. walk \in Tasks /\ walk' = walk + 1 /\ walk' \in 1..4
  BY <1>1, <1>2, <1>3, SuccessorInBootRing DEF KInv, Passed, Tasks, Shell
<1>5. state' = [state EXCEPT ![walk] = BLOCKED]
      /\ UNCHANGED <<ring, scheduler_running, cpu>>
  BY <1>4 DEF process_block_others, process_block, KInv, Alive
<1>6. \A t \in Tasks : t \in Pid /\ t # Shell
  BY DEF Tasks, Shell, Pid
<1>7. \A p \in Pid : state'[p] = IF p = walk THEN BLOCKED ELSE state[p]
  BY <1>4, <1>5, <1>6 DEF IInv, TypeOK
<1>8. current_process' = current_process
  BY <1>5 DEF current_process
<1>9. BootOrder' /\ TablesReady' /\ FlagClear' /\ ProgramKeepsShell'
  BY <1>1, <1>2, <1>5 DEF KInv, BootOrder, TablesReady, FlagClear, ProgramKeepsShell
<1>10. Alive'
  <2>1. \A t \in Tasks : pc'[t] = "task" /\ state'[t] # DEAD
    BY <1>2, <1>6, <1>7 DEF KInv, Alive, BLOCKED, DEAD
  <2>2. \A p \in Programs : p \in Pid /\ p \notin Tasks
    BY DEF Programs, Tasks, Shell
  <2>3. \A p \in Programs : state'[p] = NONE \/ pc'[p] = "halted" \/ state'[p] \in {READY, RUNNING}
    BY <1>2, <1>4, <1>7, <2>2 DEF KInv, Alive
  <2>4. state'[Shell] \in {READY, RUNNING} /\ state'[current_process'] # BLOCKED
    BY <1>1, <1>2, <1>7, <1>8 DEF KInv, Alive
  <2> QED BY <2>1, <2>3, <2>4 DEF Alive
<1>11. Passed'
  <2>1. \A t \in Tasks : t < walk' => t < walk \/ t = walk
    BY <1>4 DEF Tasks, Shell
  <2> QED BY <1>2, <1>4, <1>6, <1>7, <2>1 DEF KInv, Passed
<1>12. ShellAlone'
  BY <1>2 DEF ShellAlone, Interactive
<1> QED BY <1>1, <1>2, <1>9, <1>10, <1>11, <1>12 DEF KInv

\* Then the prompt appears, with every task blocked.
LEMMA BlockingDonePreserves ==
    ASSUME IInv, KInv, BlockingDone
    PROVE  KInv'
<1>1. /\ Goes(Shell, "block_others", "prompt") /\ walk = Shell
      /\ UNCHANGED <<vars, interrupts, tables, stage>>
  BY DEF BlockingDone, deviceVars
<1>2. \A t \in Tasks : state[t] = BLOCKED
  BY <1>1 DEF KInv, Passed, Goes, Tasks, Shell
<1>3. interrupts' \in BOOLEAN
  BY <1>1 DEF KInv
<1> QED BY <1>1, <1>2, <1>3, ShellMoves

\* What the shell does from its prompt on, without changing the process table.
LEMMA CommandsPreserve ==
    ASSUME IInv, KInv,
           \/ CommandDisk \/ CommandSys \/ CommandExit \/ \E name \in Names : CommandRun(name)
           \/ DiskDone \/ SysDone
           \/ FileArrives \/ LoadFails \/ ProgramCalled
           \/ ProgramReturns \/ CreateFails
    PROVE  KInv'
<1>1. PICK from \in {"prompt", "disk", "sys", "elf_read", "elf_check", "ending", "process_create"},
           to \in {"prompt", "disk", "sys", "exit", "elf_read", "elf_check", "program", "process_create"} :
        /\ Goes(Shell, from, to)
        /\ UNCHANGED <<vars, tables, stage>>
        /\ interrupts' \in {TRUE, FALSE, interrupts}
        /\ to = "disk" => ~interrupts'
  <2>1. CASE \/ CommandDisk \/ CommandSys \/ CommandExit \/ DiskDone \/ SysDone
             \/ ProgramReturns \/ CreateFails
    BY <2>1 DEF CommandDisk, CommandSys, CommandExit, DiskDone, SysDone, ProgramReturns,
                CreateFails, Quietly, deviceVars
  <2>2. CASE (\E name \in Names : CommandRun(name)) \/ FileArrives \/ LoadFails \/ ProgramCalled
    BY <2>2 DEF CommandRun, FileArrives, LoadFails, ProgramCalled
  <2> QED BY <2>1, <2>2
<1>2. pc[Shell] = from /\ interrupts' \in BOOLEAN
  BY <1>1 DEF Goes, KInv
<1>3. \A t \in Tasks : state[t] = BLOCKED
  BY <1>2 DEF KInv, ShellAlone, Interactive
<1> QED BY <1>1, <1>2, <1>3, ShellMoves

\* Two numbers are two.
LEMMA PairHasTwo == Cardinality({4, 5}) = 2
<1>1. Cardinality({4}) = 1 /\ IsFiniteSet({4})
  BY FS_Singleton, Zenon
<1>2. 5 \notin {4}
  OBVIOUS
<1>3. Cardinality({4} \cup {5}) = Cardinality({4}) + 1
  BY <1>1, <1>2, FS_AddElement, Zenon
<1>4. {4} \cup {5} = {4, 5}
  BY Zenon
<1>5. Cardinality({4, 5}) = Cardinality({4} \cup {5})
  BY <1>4, Zenon
<1> QED BY <1>1, <1>3, <1>5

\* The wait for a program ends only if there is no other process that can run.
LEMMA AwaitPreserves ==
    ASSUME IInv, KInv, AwaitProgram
    PROVE  KInv'
<1> USE BootAssumption, SizeAssumption
<1> DEFINE to == IF process_count_active > 1 THEN "await" ELSE "prompt"
<1>1. /\ Goes(Shell, "await", to) /\ UNCHANGED <<vars, interrupts, tables, stage>>
  BY DEF AwaitProgram, Quietly, deviceVars
<1>2. pc[Shell] = "await" /\ interrupts' \in BOOLEAN
  BY <1>1 DEF Goes, KInv
<1>3. \A t \in Tasks : state[t] = BLOCKED
  BY <1>2 DEF KInv, ShellAlone, Interactive
<1>4. ASSUME Len(ring) >= 5 PROVE process_count_active > 1
  <2> DEFINE active == {p \in Pid : state[p] \in {READY, RUNNING}}
  <2>1. 5 \in Pid /\ 5 \in Programs /\ state[5] # NONE
    BY <1>4 DEF IInv, TypeOK, PidsInUse, Pid, Programs, Shell
  <2>2. pc[5] # "halted"
    <3>1. cpu.owner = Shell
      BY <1>1 DEF Goes, Executes
    <3> QED BY <2>1, <3>1 DEF KInv, FlagClear, Shell
  <2>3. state[5] \in {READY, RUNNING}
    BY <2>1, <2>2 DEF KInv, Alive
  <2>4. state[4] \in {READY, RUNNING}
    BY <1>2, <1>4 DEF KInv, Alive, IInv, TypeOK, Shell
  <2>5. {4, 5} \subseteq active
    BY <2>1, <2>3, <2>4 DEF Shell
  <2>6. IsFiniteSet(active) /\ IsFiniteSet(Pid)
    <3>1. IsFiniteSet(Pid)
      BY FS_Interval DEF Pid
    <3> QED BY <3>1, FS_Subset
  <2>7. Cardinality({4, 5}) <= Cardinality(active) /\ Cardinality(active) \in Nat
    BY <2>5, <2>6, FS_Subset, FS_CardinalityType
  <2>8. Cardinality({4, 5}) = 2
    BY PairHasTwo, Zenon
  <2> QED BY <2>7, <2>8 DEF process_count_active
<1>5. Len(ring) \in Nat
  BY DEF IInv, TypeOK
<1> QED BY <1>1, <1>2, <1>3, <1>4, <1>5, ShellMoves

-----------------------------------------------------------------------------
(* Programs.                                                               *)

\* elf_load makes a process of a program that returned.
LEMMA CreateProgramPreserves ==
    ASSUME IInv, KInv, CreateProgram
    PROVE  KInv'
<1> USE BootAssumption, SizeAssumption
<1>1. /\ Executes(Shell) /\ pc[Shell] = "process_create"
      /\ pc' = [pc EXCEPT ![Shell] = "await"]
      /\ Len(ring) < MaxPid
      /\ ring' = Append(ring, Len(ring) + 1)
      /\ state' = [state EXCEPT ![Len(ring) + 1] = READY]
      /\ UNCHANGED <<scheduler_running, cpu, interrupts, walk, stage, idt, pic_base, pic_mask>>
  BY DEF CreateProgram, Goes, process_create, next_pid, deviceVars, tables
<1>2. /\ ring \in BootRings /\ Len(ring) = 4 /\ ring # <<>>
      /\ scheduler_running /\ current_process = Shell /\ cpu.owner = Shell
  BY <1>1, FourProcesses, Executing DEF BootRings, Executes
<1>3. /\ ring \in Seq(Pid) /\ 5 \in Pid
  BY <1>1, <1>2 DEF IInv, TypeOK, Pid
<1>4. /\ Len(ring') = 5 /\ ring' # <<>> /\ ring'[1] = ring[1]
  <2>1. ring' = Append(ring, 5)
    BY <1>1, <1>2
  <2>2. Len(ring') = 5
    <3>1. Len(ring') = Len(ring) + 1
      BY <1>3, <2>1
    <3> QED BY <1>2, <3>1
  <2>3. ring'[1] = ring[1]
    BY <1>2, <1>3, <2>1
  <2>4. ring' # <<>>
    BY <1>3, <2>1
  <2> QED BY <2>2, <2>3, <2>4
<1>5. current_process' = Shell
  BY <1>2, <1>4 DEF current_process
<1>6. \A p \in Pid : state'[p] = IF p = 5 THEN READY ELSE state[p]
  BY <1>1, <1>2, <1>3 DEF IInv, TypeOK
<1>7. /\ pc'[Shell] = "await" /\ \A p \in Pid : p # Shell => pc'[p] = pc[p]
      /\ pc' = [p \in Pid |-> pc'[p]]
  BY <1>1 DEF KInv
<1>8. BootOrder' /\ TablesReady' /\ ProgramKeepsShell' /\ Passed'
  <2>1. stage = "processes"
    BY <1>2 DEF KInv, BootOrder
  <2>2. BootOrder'
    BY <1>1, <1>2, <1>4, <2>1 DEF KInv, BootOrder, Boot, Shell
  <2> QED BY <1>1, <1>7, <2>2 DEF KInv, TablesReady, ProgramKeepsShell, Passed
<1>9. FlagClear'
  BY <1>1, <1>2, <1>7 DEF KInv, FlagClear
<1>10. \A t \in Tasks : t \in Pid /\ t # Shell /\ t # 5
  BY DEF Tasks, Shell, Pid
<1>11. Alive'
  <2>1. \A t \in Tasks : pc'[t] = "task" /\ state'[t] # DEAD
    BY <1>6, <1>7, <1>10 DEF KInv, Alive
  <2>2. \A p \in Programs : p \in Pid /\ p # Shell
    BY DEF Programs, Shell
  <2>3. \A p \in Programs : state'[p] = NONE \/ pc'[p] = "halted" \/ state'[p] \in {READY, RUNNING}
    BY <1>6, <1>7, <2>2 DEF KInv, Alive
  <2>4. state'[Shell] \in {READY, RUNNING}
    BY <1>1, <1>2, <1>6 DEF KInv, Alive, Shell
  <2> QED BY <1>5, <2>1, <2>3, <2>4 DEF Alive, READY, RUNNING, BLOCKED
<1>12. ShellAlone'
  <2>1. \A t \in Tasks : state[t] = BLOCKED
    BY <1>1 DEF KInv, ShellAlone, Interactive
  <2> QED BY <1>5, <1>6, <1>10, <2>1 DEF ShellAlone
<1> QED BY <1>1, <1>7, <1>8, <1>9, <1>11, <1>12 DEF KInv

\* process_exit, of the shell or of a program that is a process.
LEMMA ExitsPreserve ==
    ASSUME IInv, KInv, NEW p \in Programs \cup {Shell}, Exits(p)
    PROVE  KInv'
<1> USE BootAssumption, SizeAssumption
<1>1. /\ Executes(p) /\ pc[p] = "exit" /\ pc' = [pc EXCEPT ![p] = "halted"]
      /\ state' = [state EXCEPT ![current_process] = DEAD]
      /\ cpu' = [cpu EXCEPT !.at = Halted]
      /\ UNCHANGED <<ring, scheduler_running, interrupts, walk, stage, idt, pic_base, pic_mask>>
  BY DEF Exits, Goes, process_exit, deviceVars, tables
<1>2. /\ scheduler_running /\ current_process = p /\ cpu.owner = p /\ p \in Pid
      /\ Len(ring) \in Nat /\ Len(ring) >= 4 /\ ring # <<>>
  BY <1>1, Executing DEF Executes
<1>3. cpu'.owner = p /\ current_process' = current_process
  BY <1>1, <1>2 DEF IInv, TypeOK, Contexts, current_process
<1>4. \A q \in Pid : state'[q] = IF q = p THEN DEAD ELSE state[q]
  BY <1>1, <1>2 DEF IInv, TypeOK
<1>5. /\ pc'[p] = "halted" /\ \A q \in Pid : q # p => pc'[q] = pc[q]
      /\ pc' = [q \in Pid |-> pc'[q]]
  BY <1>1, <1>2 DEF KInv
<1>6. p \in Pid /\ p \notin Tasks /\ p # Boot /\ \A t \in Tasks : t \in Pid
  BY DEF Programs, Tasks, Shell, Pid, Boot
<1>7. BootOrder' /\ TablesReady'
  BY <1>1, <1>2, <1>3, <1>6 DEF KInv, BootOrder, TablesReady
<1>8. FlagClear'
  BY <1>1, <1>2, <1>3, <1>5 DEF KInv, FlagClear
<1>9. Alive'
  <2>1. \A t \in Tasks : pc'[t] = "task" /\ state'[t] # DEAD
    BY <1>4, <1>5, <1>6 DEF KInv, Alive
  <2>2. \A q \in Programs : q \in Pid
    BY DEF Programs
  <2>3. \A q \in Programs : state'[q] = NONE \/ pc'[q] = "halted" \/ state'[q] \in {READY, RUNNING}
    BY <1>4, <1>5, <2>2 DEF KInv, Alive
  <2>4. pc'[Shell] # "halted" => p # Shell /\ pc[Shell] # "halted"
    BY <1>5
  <2>5. pc'[Shell] # "halted" => state'[Shell] \in {READY, RUNNING}
    BY <1>2, <1>4, <2>4 DEF KInv, Alive
  <2>6. state'[current_process'] # BLOCKED
    BY <1>2, <1>3, <1>4 DEF DEAD, BLOCKED
  <2> QED BY <2>1, <2>3, <2>5, <2>6 DEF Alive
<1>10. ProgramKeepsShell' /\ Passed' /\ ShellAlone'
  <2>1. CASE p = Shell
    BY <1>1, <1>5, <2>1 DEF KInv, ProgramKeepsShell, Passed, ShellAlone, Interactive
  <2>2. CASE p # Shell
    <3>1. pc'[Shell] = pc[Shell]
      BY <1>5, <2>2
    <3>2. \A t \in Tasks : state'[t] = state[t]
      BY <1>4, <1>6
    <3> QED BY <1>1, <1>3, <3>1, <3>2 DEF KInv, ProgramKeepsShell, Passed, ShellAlone, Interactive
  <2> QED BY <2>1, <2>2
<1> QED BY <1>1, <1>5, <1>7, <1>8, <1>9, <1>10 DEF KInv

\* The other steps of a program, in the shell's context or in its own.
LEMMA ProgramPreserves ==
    ASSUME IInv, KInv, NEW p \in Programs \cup {Shell}, ProgramStep(p)
    PROVE  KInv'
<1>1. CASE Exits(p)
  BY <1>1, ExitsPreserve
<1>2. CASE ~Exits(p)
  <2>1. PICK from \in {"program", "syscall", "sys_disk", "ending"},
             to \in {"syscall", "sys_disk", "ending", "hlt_loop", "exit"} :
          /\ Goes(p, from, to)
          /\ UNCHANGED <<vars, walk, tables, stage>>
          /\ interrupts' \in {TRUE, FALSE, interrupts}
          /\ to \in {"syscall", "sys_disk", "exit"} => ~interrupts'
    BY <1>2 DEF ProgramStep, SystemCall, SystemCallReturns, NoSystemCall, ProgramHalts,
                SYS_EXIT, Quietly, deviceVars
  <2>2. interrupts' \in BOOLEAN /\ pc[p] = from
    BY <2>1 DEF KInv, Goes
  <2>3. CASE p \in Programs
    BY <2>1, <2>2, <2>3, ProgramMoves
  <2>4. CASE p = Shell
    <3>1. \A t \in Tasks : state[t] = BLOCKED
      BY <2>2, <2>4 DEF KInv, ShellAlone, Interactive
    <3> QED BY <2>1, <2>2, <2>4, <3>1, ShellMoves
  <2> QED BY <2>3, <2>4
<1> QED BY <1>1, <1>2

\* A program that is a process returns, and runs astray.
LEMMA StraysPreserve ==
    ASSUME IInv, KInv, NEW p \in Programs, ReturnsAgain(p) \/ RunsAstray(p)
    PROVE  KInv'
<1>1. CASE ReturnsAgain(p)
  <2>1. /\ Goes(p, "ending", "astray") /\ UNCHANGED <<vars, walk, tables, stage>>
        /\ interrupts' = interrupts
    BY <1>1 DEF ReturnsAgain, Quietly, deviceVars
  <2>2. interrupts' \in BOOLEAN
    BY <2>1 DEF KInv
  <2> QED BY <2>1, <2>2, ProgramMoves
<1>2. CASE RunsAstray(p)
  <2>1. /\ UNCHANGED <<ring, state, scheduler_running, cpu, pc, walk, stage, current_process,
                       idt, pic_base, pic_mask>>
        /\ interrupts' \in BOOLEAN
    BY <1>2 DEF RunsAstray, vars, tables, current_process
  <2>2. /\ scheduler_running /\ Len(ring) >= 4 /\ cpu.owner = p /\ pc[p] = "astray"
    BY <1>2, Executing DEF RunsAstray, Executes
  <2>3. FlagClear'
    <3>1. \A q \in Pid : pc[q] = "elf_read" => q = Shell
      BY DEF KInv, FlagClear
    <3>2. ASSUME NEW q \in Pid,
                 \/ pc[q] \in {"disk", "sys_disk", "syscall"}
                 \/ q # Shell /\ pc[q] \in {"exit", "halted"}
          PROVE  FALSE
      <4>1. cpu.owner = q
        BY <3>2 DEF KInv, FlagClear
      <4> QED BY <2>2, <3>2, <4>1
    <3> QED BY <2>1, <3>1, <3>2 DEF FlagClear
  <2>4. BootOrder' /\ TablesReady' /\ Alive' /\ ProgramKeepsShell' /\ Passed' /\ ShellAlone'
    BY <2>1, <2>2 DEF KInv, BootOrder, TablesReady, Alive, ProgramKeepsShell, Passed,
                      ShellAlone, Interactive
  <2> QED BY <2>1, <2>3, <2>4 DEF KInv
<1> QED BY <1>1, <1>2

-----------------------------------------------------------------------------
(* The invariant, and what follows from it.                                *)

\* Every step of the system preserves the invariants.
LEMMA KernelNextPreserves ==
    ASSUME MaxPid <= MAX_PROCESSES + 1
    PROVE  IInv /\ KInv /\ [KernelNext]_kvars => KInv'
<1> SUFFICES ASSUME IInv, KInv, [KernelNext]_kvars PROVE KInv'
  OBVIOUS
<1>1. CASE kernel_main
  BY <1>1, TablesPreserve, BootCreatesPreserve, BootEnablesPreserve, BootStartsPreserve
     DEF kernel_main
<1>2. CASE irq0
  BY <1>2, TickPreserves
<1>3. CASE DiskFails \/ UNCHANGED kvars
  <2>1. UNCHANGED <<ring, state, scheduler_running, cpu, pc, interrupts, walk, stage,
                    idt, pic_base, pic_mask, current_process>>
    BY <1>3 DEF DiskFails, vars, kvars, deviceVars, tables, current_process
  <2>2. BootOrder' /\ TablesReady' /\ FlagClear'
    BY <2>1 DEF KInv, BootOrder, TablesReady, FlagClear
  <2>3. Alive' /\ ProgramKeepsShell' /\ Passed' /\ ShellAlone'
    BY <2>1 DEF KInv, Alive, ProgramKeepsShell, Passed, ShellAlone, Interactive
  <2> QED BY <2>1, <2>2, <2>3 DEF KInv
<1>4. CASE UserTypes
  BY <1>4, KeyPressedPreserves, CommandsPreserve DEF UserTypes
<1>5. CASE ShellStep
  BY <1>5, BlockOthersPreserves, BlockingDonePreserves, CommandsPreserve,
     CreateProgramPreserves, AwaitPreserves, ProgramPreserves DEF ShellStep
<1>6. CASE \E p \in Programs : ProgramStep(p) \/ ReturnsAgain(p) \/ RunsAstray(p)
  BY <1>6, ProgramPreserves, StraysPreserve
<1> QED BY <1>1, <1>2, <1>3, <1>4, <1>5, <1>6 DEF KernelNext

\* The invariants, of the variables as Kernel models them.
LEMMA AlwaysKInv ==
    ASSUME MaxPid <= MAX_PROCESSES + 1
    PROVE  KernelSpec => [](IInv /\ KInv)
<1>1. KernelInit => IInv /\ KInv
  BY InitIInv, KernelInitKInv DEF KernelInit
<1>2. IInv /\ KInv /\ [KernelNext]_kvars => (IInv /\ KInv)'
  BY KernelSchedules, NextPreserves, KernelNextPreserves
<1> QED BY <1>1, <1>2, PTL DEF KernelSpec

\* The inductive invariant of the whole system (kernel.c, shell.c, elf.c), until
\* a program returns a second time.
THEOREM KernelInvariance ==
    ASSUME MaxPid <= MAX_PROCESSES + 1
    PROVE  KernelSpec => [](Sane => IInv /\ KInv)
<1>1. IInv /\ KInv => (Sane => IInv /\ KInv)
  OBVIOUS
<1> QED BY <1>1, AlwaysKInv, PTL

\* Until a program returns a second time, every step of the whole system is one
\* of Scheduler: what is proved of Scheduler holds of the boot table, the shell
\* and its programs.
THEOREM KernelImplementsScheduler ==
    ASSUME MaxPid <= MAX_PROCESSES + 1
    PROVE  KernelSpec => Init /\ [][Sane => [Next]_vars]_kvars
<1>1. KernelInit => Init
  BY DEF KernelInit
<1>2. IInv /\ KInv /\ [KernelNext]_kvars => [Sane => [Next]_vars]_kvars
  BY KernelSchedules
<1> QED BY <1>1, <1>2, AlwaysKInv, PTL DEF KernelSpec

\* At the prompt all demonstration tasks are blocked (shell.c 103-106).
THEOREM TasksStayBlocked ==
    ASSUME MaxPid <= MAX_PROCESSES + 1
    PROVE  KernelSpec => []TasksBlocked
<1>1. KInv => TasksBlocked
  BY DEF KInv, ShellAlone, TasksBlocked
<1> QED BY <1>1, AlwaysKInv, PTL

\* No interrupt can arrive that has no handler of its own (kernel.c 103-135).
THEOREM HandlersInPlace ==
    ASSUME MaxPid <= MAX_PROCESSES + 1
    PROVE  KernelSpec => []InterruptsHaveHandlers
<1>1. ASSUME IInv, KInv, interrupts PROVE InterruptsHaveHandlers
  <2>1. stage = "processes"
    BY <1>1 DEF KInv, BootOrder, IInv, TypeOK
  <2>2. pic_base = 32 /\ pic_mask = Lines \ {0} /\ idt[32] = "irq0"
    BY <2>1, <1>1 DEF KInv, TablesReady
  <2>3. Lines \ pic_mask = {0} /\ IrqHandler(0) = "irq0" /\ 32 + 0 \notin Exceptions
    BY <2>2 DEF Lines, IrqHandler, Handler, Exceptions
  <2> QED BY <2>2, <2>3 DEF InterruptsHaveHandlers
<1>2. IInv /\ KInv => InterruptsHaveHandlers
  BY <1>1 DEF InterruptsHaveHandlers
<1> QED BY <1>2, AlwaysKInv, PTL

\* Two processes never use the disk at the same time (shell.c 126-146, elf.c 93).
THEOREM DiskUsedByOne ==
    ASSUME MaxPid <= MAX_PROCESSES + 1
    PROVE  KernelSpec => []OneDiskUser
<1>1. ASSUME IInv, KInv PROVE OneDiskUser
  <2>1. ASSUME NEW p \in DiskUsers, NEW q \in DiskUsers, p # q PROVE FALSE
    <3>1. /\ p \in Pid /\ q \in Pid
          /\ pc[p] \in {"disk", "elf_read", "sys_disk"} /\ pc[q] \in {"disk", "elf_read", "sys_disk"}
      BY <2>1 DEF DiskUsers
    <3>2. PICK r \in Pid : r # Shell /\ cpu.owner = r /\ pc[Shell] = "elf_read"
      BY <1>1, <2>1, <3>1 DEF KInv, FlagClear
    <3>3. pc[r] \in {"disk", "sys_disk"}
      BY <1>1, <2>1, <3>1, <3>2 DEF KInv, FlagClear
    <3>4. r \notin Tasks
      BY <1>1, <3>3 DEF KInv, Alive
    <3>5. r >= 5 /\ state[r] # NONE
      <4>1. ring # <<>> /\ current_process = r
        BY <1>1, <3>2 DEF IInv, Phases, Boot, Pid
      <4> QED BY <1>1, <3>2, <3>4, <4>1, CurrentProcess DEF Pid, Tasks, Shell
    <3>6. Len(ring) >= 5
      BY <1>1, <3>5 DEF IInv, TypeOK, PidsInUse, Pid
    <3> QED BY <1>1, <3>2, <3>6 DEF KInv, ProgramKeepsShell
  <2>2. CASE DiskUsers = {}
    BY <2>2, FS_EmptySet DEF OneDiskUser
  <2>3. CASE DiskUsers # {}
    <3>1. PICK p : DiskUsers = {p}
      BY <2>1, <2>3
    <3> QED BY <3>1, FS_Singleton DEF OneDiskUser
  <2> QED BY <2>2, <2>3
<1>2. IInv /\ KInv => OneDiskUser
  BY <1>1
<1> QED BY <1>2, AlwaysKInv, PTL

-----------------------------------------------------------------------------
(* Action properties.                                                      *)

\* The processor changes hands only in a tick, and when kernel_main leaves it.
LEMMA OwnerKept ==
    ASSUME IInv, KInv, [KernelNext]_kvars, cpu'.owner # cpu.owner
    PROVE  irq0 \/ BootStarts
<1>1. process_exit => cpu'.owner = cpu.owner
  BY DEF process_exit, IInv, TypeOK, Contexts
<1>2. \A p : Exits(p) => process_exit
  BY DEF Exits
<1>3. ASSUME NEW p, ProgramStep(p) PROVE FALSE
  BY <1>1, <1>2, <1>3 DEF ProgramStep, SystemCall, SystemCallReturns, NoSystemCall,
                          ProgramHalts, SYS_EXIT, Quietly, vars
<1>4. ~ShellStep
  BY <1>3 DEF ShellStep, process_block_others, process_block, BlockingDone, DiskDone, SysDone,
              FileArrives, LoadFails, ProgramCalled, ProgramReturns, CreateProgram,
              process_create, CreateFails, AwaitProgram, Quietly, vars
<1>5. ~UserTypes /\ ~DiskFails /\ ~UNCHANGED kvars
  BY DEF UserTypes, KeyPressed, CommandDisk, CommandSys, CommandExit, CommandRun, DiskFails,
         Quietly, vars, kvars
<1>6. ~BootTables /\ ~BootCreates /\ ~BootEnables
  BY DEF BootTables, Step, BootCreates, process_create, BootEnables, vars
<1>7. \A p : ~ReturnsAgain(p) /\ ~RunsAstray(p)
  BY DEF ReturnsAgain, RunsAstray, Quietly, vars
<1> QED BY <1>3, <1>4, <1>5, <1>6, <1>7 DEF KernelNext, kernel_main

\* Once the shell is at its prompt, no tick gives the processor to a task
\* (shell.c 103-106, scheduler.c 45-51).
THEOREM ShellKeepsCPU ==
    ASSUME MaxPid <= MAX_PROCESSES + 1
    PROVE  KernelSpec => ShellUndisturbed
<1>1. ASSUME IInv, KInv, [KernelNext]_kvars, Interactive, cpu.owner \notin Tasks
      PROVE  cpu'.owner \notin Tasks
  <2>1. CASE cpu'.owner = cpu.owner
    BY <1>1, <2>1
  <2>2. CASE cpu'.owner # cpu.owner
    <3>1. pc[Shell] # "esperar_tecla" /\ pc[Shell] # "halted"
      BY <1>1 DEF Interactive
    <3>2. cpu.owner # Boot
      BY <1>1, <3>1 DEF KInv, BootOrder
    <3>3. irq0 /\ interrupts
      BY <1>1, <2>2, <3>2, OwnerKept DEF BootStarts, scheduler_start, LoadFirst, BootExecutes, irq0
    <3>4. TickSwitches
      BY <2>2, <3>3 DEF irq0, scheduler_tick, TickInQuantum, TickKeeps
    <3>5. cpu'.owner = current_process' /\ state[current_process'] = READY
      BY <1>1, <3>1, <3>3, <3>4, Switch
    <3>6. \A t \in Tasks : state[t] = BLOCKED
      BY <1>1 DEF KInv, ShellAlone
    <3> QED BY <3>5, <3>6 DEF READY, BLOCKED
  <2> QED BY <2>1, <2>2
<1>2. IInv /\ KInv /\ [KernelNext]_kvars =>
        [(Sane /\ Interactive /\ cpu.owner \notin Tasks) => cpu'.owner \notin Tasks]_kvars
  BY <1>1
<1> QED BY <1>2, AlwaysKInv, PTL DEF KernelSpec, ShellUndisturbed

\* A section under cli is never interrupted, and whoever cleared the flag sets
\* it again (shell.c 130-132, 144-146).
THEOREM FlagKeepsCPU ==
    ASSUME MaxPid <= MAX_PROCESSES + 1
    PROVE  KernelSpec => ClearFlagKeepsCPU
<1> DEFINE A == (Sane /\ Booted /\ ~interrupts) =>
                   /\ cpu'.owner = cpu.owner
                   /\ interrupts' => pc'[cpu.owner] # pc[cpu.owner]
<1>1. ASSUME IInv, KInv, [KernelNext]_kvars, Sane, Booted, ~interrupts
      PROVE  /\ cpu'.owner = cpu.owner
             /\ interrupts' => pc'[cpu.owner] # pc[cpu.owner]
  <2>1. cpu'.owner = cpu.owner
    BY <1>1, OwnerKept DEF irq0, BootStarts
  <2>2. ASSUME interrupts' PROVE pc'[cpu.owner] # pc[cpu.owner]
    <3>1. \/ DiskDone \/ SysDone \/ \E p : SystemCallReturns(p)
      <4>1. ~kernel_main /\ ~irq0
        BY <1>1 DEF kernel_main, BootTables, Step, BootCreates, BootEnables, BootStarts,
                    BootExecutes, Booted, irq0
      <4>2. interrupts' # interrupts
        BY <1>1, <2>2
      <4>3. ~UserTypes /\ ~DiskFails /\ ~UNCHANGED kvars
        BY <2>2, <4>2 DEF UserTypes, KeyPressed, CommandDisk, CommandSys, CommandExit,
                    CommandRun, DiskFails, Quietly, kvars
      <4>4. ASSUME NEW p, ProgramStep(p) PROVE SystemCallReturns(p)
        BY <2>2, <4>2, <4>4 DEF ProgramStep, SystemCall, NoSystemCall, ProgramHalts, SYS_EXIT,
                           Exits, Quietly
      <4>5. ShellStep => DiskDone \/ SysDone \/ ProgramStep(Shell)
        BY <4>2 DEF ShellStep, process_block_others, BlockingDone, FileArrives, LoadFails,
                    ProgramCalled, ProgramReturns, CreateProgram, CreateFails, AwaitProgram,
                    Quietly
      <4>6. \A p \in Programs : ~ReturnsAgain(p) /\ ~RunsAstray(p)
        BY <1>1, <4>2 DEF ReturnsAgain, RunsAstray, Quietly, Sane, Programs
      <4> QED BY <1>1, <4>1, <4>3, <4>4, <4>5, <4>6 DEF KernelNext
    <3>2. PICK p, from, to : Goes(p, from, to) /\ from # to
      <4>1. DiskDone => Goes(Shell, "disk", "prompt")
        BY DEF DiskDone
      <4>2. SysDone => Goes(Shell, "sys", "prompt")
        BY DEF SysDone
      <4>3. \A p : SystemCallReturns(p) =>
                     Goes(p, "syscall", "ending") \/ Goes(p, "sys_disk", "ending")
        BY DEF SystemCallReturns
      <4>4. /\ "disk" # "prompt" /\ "sys" # "prompt"
            /\ "syscall" # "ending" /\ "sys_disk" # "ending"
        OBVIOUS
      <4> QED BY <3>1, <4>1, <4>2, <4>3, <4>4
    <3>3. cpu.owner = p /\ p \in Pid
      BY <1>1, <3>2, Executing DEF Goes, Executes
    <3> QED BY <1>1, <3>2, <3>3 DEF Goes, KInv
  <2> QED BY <2>1, <2>2
<1>2. IInv /\ KInv /\ [KernelNext]_kvars => [A]_kvars
  BY <1>1
<1> QED BY <1>2, AlwaysKInv, PTL DEF KernelSpec, ClearFlagKeepsCPU

\* The memory of a program that is a process is not loaded over (shell.c 177-179,
\* elf.c 135-145): no program is loaded any more.
THEOREM MemoryKept ==
    ASSUME MaxPid <= MAX_PROCESSES + 1
    PROVE  KernelSpec => ProgramsKeepMemory
<1> DEFINE A == (Sane /\ memory' # memory) => \A p \in Programs : state[p] \in {NONE, DEAD}
<1>1. ASSUME IInv, KInv, [KernelNext]_kvars, Sane, memory' # memory, NEW p \in Programs
      PROVE  state[p] = NONE
  <2>1. ASSUME NEW q, ProgramStep(q) PROVE FALSE
    BY <1>1, <2>1 DEF ProgramStep, SystemCall, SystemCallReturns, NoSystemCall, ProgramHalts,
                      SYS_EXIT, Exits, Quietly, deviceVars, loaderVars, elfVars
  <2>2. ~kernel_main /\ ~irq0 /\ ~DiskFails /\ ~UserTypes /\ ~UNCHANGED kvars
    BY <1>1 DEF kernel_main, BootTables, Step, BootCreates, BootEnables, BootStarts, irq0,
                DiskFails, UserTypes, KeyPressed, CommandDisk, CommandSys, CommandExit,
                CommandRun, Quietly, deviceVars, loaderVars, elfVars, kvars
  <2>3. ShellStep => ProgramCalled
    BY <1>1, <2>1 DEF ShellStep, process_block_others, BlockingDone, DiskDone, SysDone,
                FileArrives, LoadFails, ProgramReturns, CreateProgram, CreateFails,
                AwaitProgram, Quietly, deviceVars, loaderVars, elfVars
  <2>4. \A q \in Programs : ~ReturnsAgain(q) /\ ~RunsAstray(q)
    BY <1>1 DEF ReturnsAgain, RunsAstray, Quietly, deviceVars, loaderVars, elfVars, Sane, Programs
  <2>5. ProgramCalled
    BY <1>1, <2>1, <2>2, <2>3, <2>4 DEF KernelNext
  <2>6. Executes(Shell) /\ pc[Shell] = "elf_check"
    BY <2>5 DEF ProgramCalled, Goes
  <2>7. Len(ring) = 4
    BY <1>1, <2>6, FourProcesses DEF BootRings
  <2> QED BY <1>1, <2>7 DEF IInv, TypeOK, PidsInUse, Programs, Shell, Pid
<1>2. IInv /\ KInv /\ [KernelNext]_kvars => [A]_kvars
  BY <1>1
<1> QED BY <1>2, AlwaysKInv, PTL DEF KernelSpec, ProgramsKeepMemory

-----------------------------------------------------------------------------
(* The ELF loader, and the type invariant of Kernel, which ties the reads  *)
(* of files to the places in the shell.                                    *)

\* Segments lie in the file, and do not overlap in memory; the loader checks
\* nothing of this.
Sound(segments, length) ==
    /\ \E n \in Nat : DOMAIN segments = 1..n
    /\ \A i \in DOMAIN segments :
         LET s == segments[i] IN
         /\ s.p_vaddr \in Nat /\ s.p_offset \in Nat
         /\ s.p_filesz \in Nat /\ s.p_memsz \in Nat
         /\ s.p_offset + s.p_filesz <= length
         /\ \A j \in DOMAIN segments \ {i}, a \in UserMemory :
              ~(Occupies(s, a) /\ Occupies(segments[j], a))

SoundHeaders ==
    \A name \in DOMAIN Disk :
        (Disk[name] # <<>> /\ Disk[name][1] \in DOMAIN Headers) =>
            Sound(Headers[Disk[name][1]], Len(Disk[name]))

\* A file is a sequence of bytes, and a buffer a number of them.
FilesAreBytes ==
    /\ \E Byte : \A name \in DOMAIN Disk : Disk[name] \in Seq(Byte)
    /\ BufferSize \in Nat \ {0}

\* While the loader waits for the file, the call is the one it has made; when
\* it looks at the answer, the buffer begins with that many bytes of the file.
LoaderInv ==
    /\ pc = [p \in Pid |-> pc[p]]
    /\ files = Disk
    /\ DOMAIN elf_buffer = 0..(BufferSize - 1)
    /\ pc[Shell] = "elf_read" => call = [name |-> filename, max |-> BufferSize]
    /\ (pc[Shell] = "elf_check" /\ answer.count >= 0) =>
         /\ filename \in DOMAIN files
         /\ answer.count \in 0..Len(files[filename]) /\ answer.count <= BufferSize
         /\ \A i \in 0..(answer.count - 1) : elf_buffer[i] = files[filename][i + 1]

-----------------------------------------------------------------------------
(* The inductive invariant.                                                *)

LEMMA LoaderInitially == KernelInit => LoaderInv
  BY BootAssumption DEF KernelInit, ElfInit, LoaderInv, EntryPoint, Shell, Tasks

\* A step that does not touch the loader's variables, and does not bring the
\* shell into the loader.
LEMMA LoaderElsewhere ==
    ASSUME LoaderInv,
           UNCHANGED <<files, call, answer, elf_buffer, filename>>,
           pc' = [p \in Pid |-> pc'[p]],
           pc'[Shell] \in {"elf_read", "elf_check"} => pc'[Shell] = pc[Shell]
    PROVE  LoaderInv'
  BY DEF LoaderInv

\* A process other than the shell, or the shell outside the loader, goes on.
LEMMA LoaderUntouched ==
    ASSUME LoaderInv, NEW p, NEW from, NEW to, Goes(p, from, to),
           p # Shell \/ to \notin {"elf_read", "elf_check"},
           UNCHANGED <<files, call, answer, elf_buffer, filename>>
    PROVE  LoaderInv'
<1>1. Shell \in Pid
  BY BootAssumption
<1>2. pc' = [pc EXCEPT ![p] = to] /\ pc = [q \in Pid |-> pc[q]]
  BY DEF Goes, LoaderInv
<1>3. pc' = [q \in Pid |-> pc'[q]]
  BY <1>2
<1>4. pc'[Shell] = IF p = Shell THEN to ELSE pc[Shell]
  BY <1>1, <1>2
<1>5. pc'[Shell] \in {"elf_read", "elf_check"} => pc'[Shell] = pc[Shell]
  BY <1>4
<1> QED BY <1>3, <1>5, LoaderElsewhere

\* elf_load asks for the file (elf.c 93).
LEMMA CommandRunLoads ==
    ASSUME LoaderInv, NEW name, CommandRun(name)
    PROVE  LoaderInv'
<1>1. /\ pc' = [pc EXCEPT ![Shell] = "elf_read"]
      /\ call' = [name |-> name, max |-> BufferSize] /\ filename' = name
      /\ UNCHANGED <<files, elf_buffer>>
  BY DEF CommandRun, Goes, Ask, elfVars
<1>2. pc' = [q \in Pid |-> pc'[q]] /\ pc'[Shell] = "elf_read"
  BY <1>1, BootAssumption DEF LoaderInv
<1> QED BY <1>1, <1>2 DEF LoaderInv

\* The answer is the beginning of the file, and is in the buffer.
LEMMA FileArrivesLoads ==
    ASSUME LoaderInv, FilesAreBytes, FileArrives
    PROVE  LoaderInv'
<1>1. /\ pc[Shell] = "elf_read" /\ pc' = [pc EXCEPT ![Shell] = "elf_check"]
      /\ answer' \in Outcomes(call) /\ Received(answer'.bytes)
      /\ UNCHANGED <<files, filename>>
  BY DEF FileArrives, Goes, Answer
<1>2. pc' = [q \in Pid |-> pc'[q]] /\ pc'[Shell] = "elf_check"
  BY <1>1, BootAssumption DEF LoaderInv
<1>3. call.name = filename /\ call.max = BufferSize
  BY <1>1 DEF LoaderInv
<1>4. DOMAIN elf_buffer' = 0..(BufferSize - 1)
  BY <1>1 DEF LoaderInv, Received
<1>5. ASSUME answer'.count >= 0
      PROVE  /\ filename \in DOMAIN files
             /\ answer'.count \in 0..Len(files[filename]) /\ answer'.count <= BufferSize
             /\ \A i \in 0..(answer'.count - 1) : elf_buffer'[i] = files[filename][i + 1]
  <2>1. answer' # NotFound
    BY <1>5 DEF NotFound
  <2>2. filename \in DOMAIN files
    BY <1>1, <1>3, <2>1 DEF Outcomes
  <2>3. PICK Byte : files[filename] \in Seq(Byte)
    BY <2>2 DEF FilesAreBytes, LoaderInv
  <2>4. PICK file : file = files[filename] /\ file \in Seq(Byte) /\ Len(file) \in Nat
    BY <2>3
  <2>5. BufferSize \in Nat
    BY DEF FilesAreBytes
  <2>6. /\ Wanted(call) \in Nat /\ Wanted(call) <= Len(file)
        /\ Wanted(call) <= BufferSize
    BY <1>3, <2>4, <2>5 DEF Wanted, Smaller
  <2>7. PICK n \in 0..Wanted(call) : answer' = FirstBytes(file, n)
    BY <1>1, <1>3, <2>1, <2>2, <2>4, <2>6 DEF Outcomes
  <2>8. answer'.count = n /\ answer'.bytes = SubSeq(file, 1, n)
    BY <2>7 DEF FirstBytes
  <2>9. n \in 0..Len(file) /\ n <= BufferSize /\ n \in Nat
    BY <2>4, <2>5, <2>6, <2>7
  <2>10. /\ Len(SubSeq(file, 1, n)) = n
         /\ \A i \in 1..n : SubSeq(file, 1, n)[i] = file[i]
    BY <2>4, <2>9
  <2>11. ASSUME NEW i \in 0..(n - 1) PROVE elf_buffer'[i] = file[i + 1]
    <3>1. i \in 0..(BufferSize - 1) /\ i < n /\ i + 1 \in 1..n
      BY <2>5, <2>9
    <3>2. elf_buffer'[i] = SubSeq(file, 1, n)[i + 1]
      BY <1>1, <2>8, <2>10, <3>1 DEF Received, LoaderInv
    <3> QED BY <2>10, <3>1, <3>2
  <2> QED BY <2>2, <2>4, <2>8, <2>9, <2>11
<1> QED BY <1>1, <1>2, <1>4, <1>5 DEF LoaderInv

\* Every other step leaves the loader alone.
LEMMA ProgramLeavesLoader ==
    ASSUME LoaderInv, NEW p, ProgramStep(p)
    PROVE  LoaderInv'
<1> USE DEF deviceVars, loaderVars, filesVars, elfVars
<1>1. CASE SystemCall(p)
  BY <1>1, LoaderUntouched DEF SystemCall
<1>2. CASE SystemCallReturns(p)
  BY <1>2, LoaderUntouched DEF SystemCallReturns
<1>3. CASE NoSystemCall(p)
  BY <1>3, LoaderUntouched DEF NoSystemCall, Quietly
<1>4. CASE ProgramHalts(p)
  BY <1>4, LoaderUntouched DEF ProgramHalts, Quietly
<1>5. CASE SYS_EXIT(p)
  BY <1>5, LoaderUntouched DEF SYS_EXIT
<1>6. CASE Exits(p)
  BY <1>6, LoaderUntouched DEF Exits
<1> QED BY <1>1, <1>2, <1>3, <1>4, <1>5, <1>6 DEF ProgramStep

LEMMA StraysLeaveLoader ==
    ASSUME LoaderInv, NEW p, ReturnsAgain(p) \/ RunsAstray(p)
    PROVE  LoaderInv'
<1>1. CASE ReturnsAgain(p)
  BY <1>1, LoaderUntouched DEF ReturnsAgain, Quietly, deviceVars, loaderVars, filesVars, elfVars
<1>2. CASE RunsAstray(p)
  <2>1. UNCHANGED <<pc, files, call, answer, elf_buffer, filename>>
    BY <1>2 DEF RunsAstray, filesVars
  <2> QED BY <2>1 DEF LoaderInv
<1> QED BY <1>1, <1>2

LEMMA ShellLeavesLoader ==
    ASSUME LoaderInv, FilesAreBytes, ShellStep
    PROVE  LoaderInv'
<1> USE DEF deviceVars, loaderVars, filesVars, elfVars
<1>1. CASE process_block_others \/ BlockingDone
  BY <1>1, LoaderUntouched DEF process_block_others, BlockingDone
<1>2. CASE DiskDone \/ SysDone
  BY <1>2, LoaderUntouched DEF DiskDone, SysDone
<1>3. CASE FileArrives
  BY <1>3, FileArrivesLoads
<1>4. CASE LoadFails \/ ProgramCalled
  <2>1. PICK to \in {"prompt", "program"} : Goes(Shell, "elf_check", to)
    BY <1>4 DEF LoadFails, ProgramCalled
  <2>2. pc' = [pc EXCEPT ![Shell] = to] /\ UNCHANGED <<files, elf_buffer>>
    BY <1>4, <2>1 DEF LoadFails, ProgramCalled, Forget, Goes
  <2>3. pc' = [q \in Pid |-> pc'[q]] /\ pc'[Shell] = to
    BY <2>2, BootAssumption DEF LoaderInv
  <2> QED BY <2>1, <2>2, <2>3 DEF LoaderInv
<1>5. CASE ProgramReturns \/ CreateProgram \/ CreateFails
  BY <1>5, LoaderUntouched DEF ProgramReturns, CreateProgram, CreateFails, Quietly
<1>6. CASE AwaitProgram
  <2>1. PICK to \in {"await", "prompt"} : Goes(Shell, "await", to)
    BY <1>6 DEF AwaitProgram
  <2> QED BY <1>6, <2>1, LoaderUntouched DEF AwaitProgram, Quietly
<1>7. CASE ProgramStep(Shell)
  BY <1>7, ProgramLeavesLoader
<1> QED BY <1>1, <1>2, <1>3, <1>4, <1>5, <1>6, <1>7 DEF ShellStep

LEMMA LoaderStepKeeps ==
    ASSUME LoaderInv, FilesAreBytes, [KernelNext]_kvars
    PROVE  LoaderInv'
<1> USE DEF deviceVars, loaderVars, filesVars, elfVars
<1>1. CASE kernel_main \/ irq0 \/ UNCHANGED kvars \/ DiskFails
  <2>1. UNCHANGED <<pc, files, call, answer, elf_buffer, filename>>
    BY <1>1 DEF kernel_main, BootTables, Step, BootCreates, BootEnables, BootStarts,
                irq0, kvars, DiskFails, DiskChanges
  <2> QED BY <2>1 DEF LoaderInv
<1>2. CASE UserTypes
  <2>1. CASE KeyPressed
    BY <2>1, LoaderUntouched DEF KeyPressed
  <2>2. CASE CommandDisk \/ CommandSys \/ CommandExit
    BY <2>2, LoaderUntouched DEF CommandDisk, CommandSys, CommandExit, Quietly
  <2>3. CASE \E name \in Names : CommandRun(name)
    BY <2>3, CommandRunLoads
  <2> QED BY <1>2, <2>1, <2>2, <2>3 DEF UserTypes
<1>3. CASE ShellStep
  BY <1>3, ShellLeavesLoader
<1>4. CASE \E p \in Programs : ProgramStep(p) \/ ReturnsAgain(p) \/ RunsAstray(p)
  BY <1>4, ProgramLeavesLoader, StraysLeaveLoader
<1> QED BY <1>1, <1>2, <1>3, <1>4 DEF KernelNext

-----------------------------------------------------------------------------
(* The program that is called.                                             *)

\* Copying the segments of a file that is in the buffer as a whole puts the
\* program where its headers want it (elf.c 123-145).
LEMMA LoadedIsHeld ==
    ASSUME SoundHeaders, FilesAreBytes, files = Disk,
           NEW name \in DOMAIN files, files[name] # <<>>,
           DOMAIN elf_buffer = 0..(BufferSize - 1),
           Len(files[name]) <= BufferSize,
           \A i \in 0..(Len(files[name]) - 1) : elf_buffer[i] = files[name][i + 1],
           elf_verify, LoadSegments
    PROVE  Holds(memory', name)
<1>1. PICK Byte, file : file = files[name] /\ file \in Seq(Byte)
  BY DEF FilesAreBytes
<1>2. Len(file) \in Nat /\ Len(file) >= 1 /\ BufferSize \in Nat /\ Len(file) <= BufferSize
  BY <1>1 DEF FilesAreBytes
<1>3. elf_buffer[0] = file[1]
  BY <1>1, <1>2
<1>4. PICK segments : segments = Headers[file[1]]
  OBVIOUS
<1>5. file[1] \in DOMAIN Headers
  BY <1>3 DEF elf_verify
<1>6. Sound(segments, Len(file))
  BY <1>1, <1>4, <1>5 DEF SoundHeaders
<1>7. ASSUME NEW i \in DOMAIN segments, NEW k \in 0..(segments[i].p_memsz - 1)
      PROVE  memory'[segments[i].p_vaddr + k] =
                 IF k < segments[i].p_filesz
                 THEN file[segments[i].p_offset + k + 1] ELSE Zero
  <2>1. PICK s : s = segments[i]
    OBVIOUS
  <2>2. /\ s.p_vaddr \in Nat /\ s.p_offset \in Nat
        /\ s.p_filesz \in Nat /\ s.p_memsz \in Nat
        /\ s.p_offset + s.p_filesz <= Len(file)
        /\ \A j \in DOMAIN segments \ {i}, b \in UserMemory :
             ~(Occupies(s, b) /\ Occupies(segments[j], b))
    BY <1>1, <1>6, <2>1 DEF Sound
  <2>3. PICK a : a = s.p_vaddr + k
    OBVIOUS
  <2>4. k \in Nat /\ k < s.p_memsz
    BY <2>1, <2>2
  <2>5. a \in s.p_vaddr..(s.p_vaddr + s.p_memsz - 1) /\ a - s.p_vaddr = k
        /\ s.p_offset + a - s.p_vaddr = s.p_offset + k
    <3>1. PICK v \in Nat, m \in Nat, o \in Nat :
             v = s.p_vaddr /\ m = s.p_memsz /\ o = s.p_offset
      BY <2>2
    <3>2. k < m
      BY <2>4, <3>1
    <3>3. PICK n \in Nat : n = k
      BY <2>4
    <3>4. v + n \in v..(v + m - 1) /\ v + n - v = n /\ o + (v + n) - v = o + n
      BY <3>2, <3>3
    <3> QED BY <2>3, <3>1, <3>3, <3>4
  <2>6. a \in UserMemory
    BY <1>4, <1>5, <2>1, <2>5, ElfAssumption
  <2>7. Occupies(s, a)
    BY <2>5 DEF Occupies
  <2> DEFINE At(b) == {j \in DOMAIN segments : Occupies(segments[j], b)}
  <2>8. At(a) = {i}
    BY <2>1, <2>2, <2>6, <2>7
  <2>9. memory'[a] = LET last == CHOOSE j \in At(a) : \A h \in At(a) : h <= j
                     IN  Segment(segments[last], a)
    BY <1>3, <1>4, <2>6, <2>8 DEF LoadSegments
  <2>10. (CHOOSE j \in At(a) : \A h \in At(a) : h <= j) = i
    <3>1. i \in Nat
      BY <1>6 DEF Sound
    <3>2. \A j \in {i} : j = i /\ \A h \in {i} : h <= j
      BY <3>1
    <3> QED BY <2>8, <3>2
  <2>11. memory'[a] = Segment(s, a)
    BY <2>1, <2>9, <2>10
  <2>12. CASE k < s.p_filesz
    <3>1. s.p_offset + k \in 0..(Len(file) - 1) /\ s.p_offset + k \in 0..(BufferSize - 1)
      <4>1. PICK n \in Nat, o \in Nat, z \in Nat :
               n = k /\ o = s.p_offset /\ z = s.p_filesz
        BY <2>2, <2>4
      <4>2. n < z /\ o + z <= Len(file)
        BY <2>2, <2>12, <4>1
      <4>3. o + n \in 0..(Len(file) - 1) /\ o + n \in 0..(BufferSize - 1)
        BY <1>2, <4>1, <4>2
      <4> QED BY <4>1, <4>3
    <3>2. Segment(s, a) = elf_buffer[s.p_offset + k]
      BY <2>2, <2>4, <2>5, <2>12, <3>1 DEF Segment
    <3> QED BY <1>1, <2>1, <2>3, <2>11, <2>12, <3>1, <3>2
  <2>13. CASE ~(k < s.p_filesz)
    <3>1. Segment(s, a) = Zero
      BY <2>2, <2>4, <2>5, <2>13 DEF Segment
    <3> QED BY <2>1, <2>3, <2>11, <2>13, <3>1
  <2> QED BY <2>12, <2>13
<1> QED BY <1>1, <1>4, <1>5, <1>7 DEF Holds

\* No other step takes the shell from the check of the header to a program.
LEMMA OnlyCheckCalls ==
    ASSUME LoaderInv, [KernelNext]_kvars, Called
    PROVE  ProgramCalled
<1>1. ASSUME NEW p, NEW from, NEW to, Goes(p, from, to), to # "program"
      PROVE  FALSE
  <2>1. pc' = [pc EXCEPT ![p] = to] /\ pc = [q \in Pid |-> pc[q]]
    BY <1>1 DEF Goes, LoaderInv
  <2>2. pc'[Shell] = IF p = Shell THEN to ELSE pc[Shell]
    BY <2>1, BootAssumption
  <2> QED BY <1>1, <2>2 DEF Called
<1>2. pc' # pc
  BY DEF Called
<1>3. ~kernel_main /\ ~irq0 /\ ~DiskFails /\ ~UNCHANGED kvars
  BY <1>2 DEF kernel_main, BootTables, Step, BootCreates, BootEnables, BootStarts, irq0,
              DiskFails, kvars
<1>4. \A p : ~ProgramStep(p)
  BY <1>1 DEF ProgramStep, SystemCall, SystemCallReturns, NoSystemCall, ProgramHalts,
              SYS_EXIT, Exits
<1>5. ~UserTypes
  BY <1>1 DEF UserTypes, KeyPressed, CommandDisk, CommandSys, CommandExit, CommandRun
<1>6. ShellStep => ProgramCalled
  BY <1>1, <1>4 DEF ShellStep, process_block_others, BlockingDone, DiskDone, SysDone,
              FileArrives, LoadFails, ProgramReturns, CreateProgram, CreateFails,
              AwaitProgram
<1>7. \A p : ~ReturnsAgain(p) /\ ~RunsAstray(p)
  BY <1>1, <1>2 DEF ReturnsAgain, RunsAstray
<1> QED BY <1>3, <1>4, <1>5, <1>6, <1>7 DEF KernelNext

\* The program that is called is the one of the file asked for, whatever was
\* loaded before, if the file was read whole (elf.c 93-145).
THEOREM RightProgramCalled ==
    ASSUME SoundHeaders, FilesAreBytes
    PROVE  KernelSpec => CallsFileAsked
<1> DEFINE A == Called => /\ filename \in DOMAIN files
                          /\ ReadWhole => Holds(memory', filename)
<1>1. ASSUME LoaderInv, [KernelNext]_kvars, Called
      PROVE  /\ filename \in DOMAIN files
             /\ ReadWhole => Holds(memory', filename)
  <2>1. ProgramCalled
    BY <1>1, OnlyCheckCalls
  <2>2. answer.count >= 0 /\ elf_verify /\ LoadSegments /\ pc[Shell] = "elf_check"
    BY <2>1 DEF ProgramCalled, Goes
  <2>3. filename \in DOMAIN files
    BY <1>1, <2>2 DEF LoaderInv
  <2>4. ASSUME ReadWhole PROVE Holds(memory', filename)
    <3>1. /\ Len(files[filename]) <= BufferSize /\ files[filename] # <<>>
          /\ \A i \in 0..(Len(files[filename]) - 1) : elf_buffer[i] = files[filename][i + 1]
      BY <1>1, <2>2, <2>4 DEF LoaderInv, ReadWhole
    <3> QED BY <1>1, <2>2, <2>3, <3>1, LoadedIsHeld DEF LoaderInv
  <2> QED BY <2>3, <2>4
<1>2. KernelInit => LoaderInv
  BY LoaderInitially
<1>3. LoaderInv /\ [KernelNext]_kvars => LoaderInv'
  BY LoaderStepKeeps
<1>4. LoaderInv /\ [KernelNext]_kvars => [A]_kvars
  BY <1>1
<1> QED BY <1>2, <1>3, <1>4, PTL DEF KernelSpec, CallsFileAsked

-----------------------------------------------------------------------------
(* Type correctness.                                                       *)

\* KernelTypeOK without what KInv says.
TypesInv ==
    /\ pc \in [Pid -> Places]
    /\ pc[Shell] # "block_others" => walk = NULL
    /\ TablesTypeOK
    /\ call # NoCall <=> pc[Shell] = "elf_read"
    /\ answer # NoAnswer <=> pc[Shell] = "elf_check"

LEMMA TypesInitially == KernelInit => TypesInv
<1> SUFFICES ASSUME KernelInit PROVE TypesInv
  OBVIOUS
<1>1. pc \in [Pid -> Places] /\ pc[Shell] = "esperar_tecla"
  <2>1. pc = [p \in Pid |-> EntryPoint(p)]
    BY DEF KernelInit
  <2>2. \A p : EntryPoint(p) \in {"task", "esperar_tecla", "program"}
    BY DEF EntryPoint
  <2>3. EntryPoint(Shell) = "esperar_tecla"
    BY DEF EntryPoint, Shell, Tasks
  <2> QED BY <2>1, <2>2, <2>3, BootAssumption DEF Places
<1>2. /\ idt = [v \in Vectors |-> "none"] /\ pic_base = 8 /\ pic_mask = {}
  BY DEF KernelInit, TablesInit
<1>3. TablesTypeOK
  BY <1>2 DEF TablesTypeOK, Handlers
<1> QED BY <1>1, <1>3 DEF KernelInit, FilesInit, TypesInv

\* A process goes on, and the shell stays out of the loader.
LEMMA TypesGo ==
    ASSUME TypesInv, NEW p, NEW from, NEW to \in Places, Goes(p, from, to),
           UNCHANGED <<tables, call, answer>>,
           p = Shell => {from, to} \cap {"elf_read", "elf_check"} = {},
           \/ walk' = NULL
           \/ p = Shell /\ to = "block_others"
           \/ walk' = walk /\ (p = Shell => from # "block_others")
    PROVE  TypesInv'
<1>1. pc[p] = from /\ pc' = [pc EXCEPT ![p] = to] /\ pc \in [Pid -> Places] /\ Shell \in Pid
  BY BootAssumption DEF Goes, TypesInv
<1>2. pc' \in [Pid -> Places] /\ pc'[Shell] = IF p = Shell THEN to ELSE pc[Shell]
  BY <1>1
<1>3. TablesTypeOK'
  BY DEF TypesInv, tables, TablesTypeOK
<1>4. CASE p = Shell
  BY <1>1, <1>2, <1>3, <1>4 DEF TypesInv
<1>5. CASE p # Shell
  BY <1>1, <1>2, <1>3, <1>5 DEF TypesInv
<1> QED BY <1>4, <1>5

LEMMA ProgramTypes ==
    ASSUME TypesInv, NEW p, ProgramStep(p)
    PROVE  TypesInv'
<1>1. PICK from \in {"program", "syscall", "sys_disk", "ending", "exit"},
           to \in {"syscall", "sys_disk", "ending", "hlt_loop", "exit", "halted"} :
        Goes(p, from, to)
  BY DEF ProgramStep, SystemCall, SystemCallReturns, NoSystemCall, ProgramHalts, SYS_EXIT, Exits
<1>2. UNCHANGED <<walk, tables, call, answer>>
  BY DEF ProgramStep, SystemCall, SystemCallReturns, NoSystemCall, ProgramHalts, SYS_EXIT, Exits,
         Quietly, deviceVars, loaderVars, filesVars
<1> QED BY <1>1, <1>2, TypesGo DEF Places

LEMMA StrayTypes ==
    ASSUME TypesInv, NEW p \in Programs, ReturnsAgain(p) \/ RunsAstray(p)
    PROVE  TypesInv'
<1>1. p # Shell
  BY DEF Programs, Shell
<1>2. UNCHANGED <<walk, tables, call, answer>>
  BY DEF ReturnsAgain, RunsAstray, Quietly, deviceVars, loaderVars, filesVars
<1>3. CASE ReturnsAgain(p)
  <2>1. Goes(p, "ending", "astray") /\ "astray" \in Places
    BY <1>3 DEF ReturnsAgain, Places
  <2> QED BY <1>1, <1>2, <2>1, TypesGo
<1>4. CASE RunsAstray(p)
  BY <1>2, <1>4 DEF RunsAstray, TypesInv, tables, TablesTypeOK
<1> QED BY <1>3, <1>4

\* The three steps of elf_load that concern the file.
LEMMA LoaderTypes ==
    ASSUME TypesInv, FilesAreBytes, LoaderInv,
           (\E name \in Names : CommandRun(name)) \/ FileArrives \/ LoadFails \/ ProgramCalled
    PROVE  TypesInv'
<1>1. pc \in [Pid -> Places] /\ Shell \in Pid
  BY BootAssumption DEF TypesInv
<1>2. UNCHANGED <<tables, walk>>
  BY DEF CommandRun, FileArrives, LoadFails, ProgramCalled
<1>3. TablesTypeOK'
  BY <1>2 DEF TypesInv, tables, TablesTypeOK
<1>4. CASE \E name \in Names : CommandRun(name)
  <2>1. PICK name \in Names : CommandRun(name)
    BY <1>4
  <2>2. /\ pc[Shell] = "prompt" /\ pc' = [pc EXCEPT ![Shell] = "elf_read"]
        /\ call' = [name |-> name, max |-> BufferSize] /\ answer' = NoAnswer
    BY <2>1 DEF CommandRun, Goes, Ask
  <2>3. call' # NoCall
    <3>1. call'.max = BufferSize /\ NoCall.max = 0 /\ BufferSize # 0
      BY <2>2 DEF NoCall, FilesAreBytes
    <3> QED BY <3>1
  <2> QED BY <1>1, <1>2, <1>3, <2>2, <2>3 DEF TypesInv, Places
<1>5. CASE FileArrives
  <2>1. /\ pc[Shell] = "elf_read" /\ pc' = [pc EXCEPT ![Shell] = "elf_check"]
        /\ answer' \in Outcomes(call) /\ call' = NoCall
    BY <1>5 DEF FileArrives, Goes, Answer
  <2>2. answer' # NoAnswer
    <3>1. call.max = BufferSize /\ BufferSize \in Nat
      BY <2>1 DEF LoaderInv, FilesAreBytes
    <3>2. ASSUME call.name \in DOMAIN files PROVE Wanted(call) \in Nat
      <4>1. PICK Byte : files[call.name] \in Seq(Byte)
        BY <3>2 DEF FilesAreBytes, LoaderInv
      <4>2. Len(files[call.name]) \in Nat
        BY <4>1
      <4> QED BY <3>1, <4>2 DEF Wanted, Smaller
    <3>3. answer' = NotFound \/ \E n \in Nat : answer' = FirstBytes(files[call.name], n)
      BY <2>1, <3>2 DEF Outcomes
    <3>4. answer'.count = -1 \/ answer'.count \in Nat
      BY <3>3 DEF NotFound, FirstBytes
    <3>5. NoAnswer.count = -2
      BY DEF NoAnswer
    <3> QED BY <3>4, <3>5
  <2> QED BY <1>1, <1>2, <1>3, <2>1, <2>2 DEF TypesInv, Places
<1>6. CASE LoadFails \/ ProgramCalled
  <2>1. PICK to \in {"prompt", "program"} :
          /\ pc[Shell] = "elf_check" /\ pc' = [pc EXCEPT ![Shell] = to]
          /\ answer' = NoAnswer /\ call' = call
    BY <1>6 DEF LoadFails, ProgramCalled, Goes, Forget
  <2> QED BY <1>1, <1>2, <1>3, <2>1 DEF TypesInv, Places
<1> QED BY <1>4, <1>5, <1>6

LEMMA TypesStep ==
    ASSUME TypesInv, FilesAreBytes, LoaderInv, [KernelNext]_kvars
    PROVE  TypesInv'
<1> USE DEF deviceVars, loaderVars, filesVars, Places
<1>1. CASE irq0 \/ BootCreates \/ BootEnables \/ BootStarts \/ DiskFails \/ UNCHANGED kvars
  <2>1. UNCHANGED <<pc, walk, tables, call, answer>>
    BY <1>1 DEF BootCreates, BootEnables, BootStarts, irq0, kvars, DiskFails, DiskChanges
  <2> QED BY <2>1 DEF TypesInv, tables, TablesTypeOK
<1>2. CASE BootTables
  <2>1. UNCHANGED <<pc, walk, call, answer>>
    BY <1>2 DEF BootTables, Step
  <2>2. idt_init \/ isr_init \/ RemapPic \/ SetGates \/ UnmaskTimer
    BY <1>2 DEF BootTables, Step
  <2>3. TablesTypeOK'
    <3>1. TablesTypeOK
      BY DEF TypesInv
    <3>2. CASE idt_init
      BY <3>1, <3>2 DEF TablesTypeOK, idt_init, Handlers
    <3>3. CASE isr_init
      BY <3>1, <3>3 DEF TablesTypeOK, isr_init, Handlers
    <3>4. CASE RemapPic
      BY <3>1, <3>4 DEF TablesTypeOK, RemapPic
    <3>5. CASE SetGates
      BY <3>1, <3>5 DEF TablesTypeOK, SetGates, Handlers
    <3>6. CASE UnmaskTimer
      BY <3>1, <3>6 DEF TablesTypeOK, UnmaskTimer
    <3> QED BY <2>2, <3>2, <3>3, <3>4, <3>5, <3>6
  <2> QED BY <2>1, <2>3 DEF TypesInv
<1>3. CASE UserTypes
  <2>1. CASE KeyPressed
    <3>1. Goes(Shell, "esperar_tecla", "block_others") /\ UNCHANGED <<tables, call, answer>>
      BY <2>1 DEF KeyPressed
    <3> QED BY <3>1, TypesGo
  <2>2. CASE CommandDisk \/ CommandSys \/ CommandExit
    <3>1. PICK to \in {"disk", "sys", "exit"} : Goes(Shell, "prompt", to) /\ UNCHANGED <<walk, tables, call, answer>>
      BY <2>2 DEF CommandDisk, CommandSys, CommandExit, Quietly
    <3> QED BY <3>1, TypesGo
  <2>3. CASE \E name \in Names : CommandRun(name)
    BY <2>3, LoaderTypes
  <2> QED BY <1>3, <2>1, <2>2, <2>3 DEF UserTypes
<1>4. CASE ShellStep
  <2>1. CASE process_block_others
    <3>1. Goes(Shell, "block_others", "block_others") /\ UNCHANGED <<tables, call, answer>>
      BY <2>1 DEF process_block_others
    <3> QED BY <3>1, TypesGo
  <2>2. CASE BlockingDone
    <3>1. /\ Goes(Shell, "block_others", "prompt") /\ walk' = NULL
          /\ UNCHANGED <<tables, call, answer>>
      BY <2>2 DEF BlockingDone
    <3> QED BY <3>1, TypesGo
  <2>3. CASE DiskDone \/ SysDone
    <3>1. PICK from \in {"disk", "sys"} :
            Goes(Shell, from, "prompt") /\ UNCHANGED <<walk, tables, call, answer>>
      BY <2>3 DEF DiskDone, SysDone
    <3> QED BY <3>1, TypesGo
  <2>4. CASE FileArrives \/ LoadFails \/ ProgramCalled
    BY <2>4, LoaderTypes
  <2>5. CASE ProgramReturns \/ CreateProgram \/ CreateFails
    <3>1. PICK from \in {"ending", "process_create"}, to \in {"process_create", "await", "prompt"} :
            Goes(Shell, from, to) /\ UNCHANGED <<walk, tables, call, answer>>
      BY <2>5 DEF ProgramReturns, CreateProgram, CreateFails, Quietly
    <3> QED BY <3>1, TypesGo
  <2>6. CASE AwaitProgram
    <3>1. PICK to \in {"await", "prompt"} : Goes(Shell, "await", to) /\ UNCHANGED <<walk, tables, call, answer>>
      BY <2>6 DEF AwaitProgram, Quietly
    <3> QED BY <3>1, TypesGo
  <2>7. CASE ProgramStep(Shell)
    BY <2>7, ProgramTypes
  <2> QED BY <1>4, <2>1, <2>2, <2>3, <2>4, <2>5, <2>6, <2>7 DEF ShellStep
<1>5. CASE \E p \in Programs : ProgramStep(p) \/ ReturnsAgain(p) \/ RunsAstray(p)
  BY <1>5, ProgramTypes, StrayTypes
<1> QED BY <1>1, <1>2, <1>3, <1>4, <1>5 DEF KernelNext, kernel_main

\* Kernel's variables keep their types: a read of a file goes on exactly while
\* the loader waits for it, a walk of the list while others are blocked.
THEOREM KernelTypeCorrect ==
    ASSUME MaxPid <= MAX_PROCESSES + 1, FilesAreBytes
    PROVE  KernelSpec => []KernelTypeOK
<1>1. KernelInit => TypesInv /\ LoaderInv
  BY TypesInitially, LoaderInitially
<1>2. TypesInv /\ LoaderInv /\ [KernelNext]_kvars => (TypesInv /\ LoaderInv)'
  BY TypesStep, LoaderStepKeeps
<1>3. TypesInv /\ KInv => KernelTypeOK
  <2> SUFFICES ASSUME TypesInv, KInv PROVE KernelTypeOK
    OBVIOUS
  <2>1. pc[Shell] = "block_others" => walk \in Pid
    BY BootAssumption, SizeAssumption DEF KInv, Passed, Pid, Shell
  <2> QED BY <2>1 DEF TypesInv, KInv, KernelTypeOK
<1> QED BY <1>1, <1>2, <1>3, AlwaysKInv, PTL DEF KernelSpec
=============================================================================
