------------------------------ MODULE Scheduler ------------------------------
(***************************************************************************)
(* The process table of process.c and the priority round-robin scheduler   *)
(* of scheduler.c, as the timer interrupt (irq0 of isr.asm) drives them.   *)
(*                                                                         *)
(* The circular list of PCBs is the sequence "ring" read from              *)
(* current_process: ring[1] is current_process, ring[i+1] is the "next" of *)
(* ring[i] and the last element points back to ring[1].  Linking a new PCB *)
(* in front of current_process is therefore Append, and moving             *)
(* current_process along the list is a rotation.  The module RunList       *)
(* models the pointers themselves.                                         *)
(*                                                                         *)
(* A saved ESP stands for the register context it points at: whose context *)
(* it is and where it resumes.  Where it resumes is abstracted to a bit    *)
(* that flips whenever the process advances, which is enough to tell the   *)
(* latest context from a stale one, and to the value Halted for a process  *)
(* that reached the endless hlt loop at the end of process_exit.           *)
(***************************************************************************)
EXTENDS Integers, Sequences

CONSTANTS
    MaxPid,         \* bound: processes created (kmalloc runs out beyond it)
    MAX_PROCESSES,  \* process.h: limit of the scheduler's search loop
    QuantumUnit,    \* process.c: 5 ticks per priority level
    Priorities,     \* the priorities passed to process_create
    StartTicks,     \* bound: ticks between scheduler_running = 1 and iret
    TickWrap        \* 2^32 in the code: ticks_total is a uint32_t

ASSUME SizeAssumption == MaxPid \in Nat \ {0} /\ MAX_PROCESSES \in Nat

ASSUME QuantumAssumption ==
    QuantumUnit \in Nat \ {0} /\ Priorities \subseteq Nat \ {0}

\* scheduler_start prints one line (microseconds) between setting
\* scheduler_running and loading the first ESP; a tick is 10 ms.
ASSUME StartAssumption == StartTicks \in Nat /\ StartTicks < QuantumUnit

ASSUME WrapAssumption == TickWrap \in Nat \ {0}

VARIABLES
    ring,               \* the circular list, from current_process on
    state,              \* the PCBs' state
    ticks_quantum,      \* the PCBs' ticks_quantum
    ticks_total,        \* the PCBs' ticks_total
    esp,                \* the PCBs' esp: the saved context
    tick_count,         \* scheduler.c
    scheduler_running,  \* scheduler.c
    cpu,                \* the context the processor is executing
    position            \* where each process really is (the truth esp must tell)

vars == <<ring, state, ticks_quantum, ticks_total, esp, tick_count,
          scheduler_running, cpu, position>>

Pid == 1..MaxPid
NULL == 0
Boot == 0                   \* owner of kernel_main's context

NONE    == "NONE"           \* no PCB with this pid yet
READY   == "READY"
RUNNING == "RUNNING"
BLOCKED == "BLOCKED"
DEAD    == "DEAD"
States  == {NONE, READY, RUNNING, BLOCKED, DEAD}

Halted == 2
Position == {0, 1, Halted}
Context(p, a) == [owner |-> p, at |-> a]
Contexts == [owner : Pid \cup {Boot}, at : Position]

next_pid == Len(ring) + 1
current_process == IF ring = <<>> THEN NULL ELSE ring[1]

\* kernel_main, or a process that has not called process_exit, executes C code.
BootExecutes == cpu.owner = Boot /\ ~scheduler_running
Executes(p)  == cpu.owner = p /\ p # Boot /\ cpu.at # Halted

-----------------------------------------------------------------------------
\* process_init and scheduler_init, called by kernel_main
Init ==
    /\ ring = <<>>
    /\ state = [p \in Pid |-> NONE]
    /\ ticks_quantum = [p \in Pid |-> 0]
    /\ ticks_total = [p \in Pid |-> 0]
    /\ esp = [p \in Pid |-> Context(Boot, 0)]
    /\ tick_count = 0
    /\ scheduler_running = FALSE
    /\ cpu = Context(Boot, 0)
    /\ position = [p \in Pid |-> 0]

\* Mutant: the walk to the last PCB stops one PCB early and unlinks the last.
process_create_EarlyTail(priority) ==
    /\ BootExecutes \/ Executes(current_process)
    /\ Len(ring) < MaxPid
    /\ ring' = Append(IF Len(ring) > 1 THEN SubSeq(ring, 1, Len(ring) - 1) ELSE ring,
                      next_pid)
    /\ state' = [state EXCEPT ![next_pid] = READY]
    /\ ticks_quantum' =
         [ticks_quantum EXCEPT ![next_pid] = priority * QuantumUnit]
    /\ esp' = [esp EXCEPT ![next_pid] = Context(next_pid, 0)]
    /\ UNCHANGED <<ticks_total, tick_count, scheduler_running, cpu, position>>

\* Mutant: the new PCB is linked right behind current_process.
process_create_AtHead(priority) ==
    /\ BootExecutes \/ Executes(current_process)
    /\ Len(ring) < MaxPid
    /\ ring' = IF ring = <<>> THEN <<next_pid>>
                              ELSE <<Head(ring), next_pid>> \o Tail(ring)
    /\ state' = [state EXCEPT ![next_pid] = READY]
    /\ ticks_quantum' =
         [ticks_quantum EXCEPT ![next_pid] = priority * QuantumUnit]
    /\ esp' = [esp EXCEPT ![next_pid] = Context(next_pid, 0)]
    /\ UNCHANGED <<ticks_total, tick_count, scheduler_running, cpu, position>>

\* process_create, called by kernel_main and (through elf_load) by the shell.
\* A failing kmalloc leaves the process table as it was: a stuttering step.
process_create(priority) ==
    /\ BootExecutes \/ Executes(current_process)
    /\ Len(ring) < MaxPid
    /\ ring' = Append(ring, next_pid)
    /\ state' = [state EXCEPT ![next_pid] = READY]
    /\ ticks_quantum' =
         [ticks_quantum EXCEPT ![next_pid] = priority * QuantumUnit]
    /\ ticks_total' = [ticks_total EXCEPT ![next_pid] = 0]
    /\ esp' = [esp EXCEPT ![next_pid] = Context(next_pid, 0)]
    /\ position' = [position EXCEPT ![next_pid] = 0]
    /\ UNCHANGED <<tick_count, scheduler_running, cpu>>

\* process_exit: the PCB stays in the list and the code halts for ever.
process_exit ==
    /\ Executes(current_process)
    /\ state' = [state EXCEPT ![current_process] = DEAD]
    /\ cpu' = [cpu EXCEPT !.at = Halted]
    /\ position' = [position EXCEPT ![current_process] = Halted]
    /\ UNCHANGED <<ring, ticks_quantum, ticks_total, esp, tick_count,
                   scheduler_running>>

\* process_block, also of a process that is dead; in process_block_others the
\* caller looks first.  Neither function looks at the state the process has.
process_block(p) ==
    /\ Executes(current_process)
    /\ state[p] # NONE
    /\ state' = [state EXCEPT ![p] = BLOCKED]
    /\ UNCHANGED <<ring, ticks_quantum, ticks_total, esp, tick_count,
                   scheduler_running, cpu, position>>

process_unblock(p) ==
    /\ Executes(current_process)
    /\ state[p] # NONE
    /\ state' = [state EXCEPT ![p] = READY]
    /\ UNCHANGED <<ring, ticks_quantum, ticks_total, esp, tick_count,
                   scheduler_running, cpu, position>>

\* Anything a process does between two calls of the kernel.
Advance ==
    /\ Executes(current_process)
    /\ cpu' = [cpu EXCEPT !.at = 1 - @]
    /\ position' = [position EXCEPT ![current_process] = 1 - @]
    /\ UNCHANGED <<ring, state, ticks_quantum, ticks_total, esp, tick_count,
                   scheduler_running>>

-----------------------------------------------------------------------------
\* scheduler_start.  Ticks may arrive between its two halves.
scheduler_start ==
    /\ BootExecutes
    /\ current_process # NULL
    /\ scheduler_running' = TRUE
    /\ state' = [state EXCEPT ![current_process] = RUNNING]
    /\ UNCHANGED <<ring, ticks_quantum, ticks_total, esp, tick_count, cpu,
                   position>>

LoadFirst ==
    /\ scheduler_running /\ cpu.owner = Boot
    /\ cpu' = esp[current_process]
    /\ UNCHANGED <<ring, state, ticks_quantum, ticks_total, esp, tick_count,
                   scheduler_running, position>>

-----------------------------------------------------------------------------
\* scheduler_tick.  Before scheduler_running it returns at once (a stutter).

\* The list read from its j-th element on.
Rotate(s, j) ==
    [i \in 1..Len(s) |-> IF i + j - 1 <= Len(s) THEN s[i + j - 1]
                                                ELSE s[i + j - 1 - Len(s)]]

\* Mutants: the search starts at current_process itself, or one PCB too far.
Candidate_FromCurrent(intentos) == (intentos % Len(ring)) + 1
Candidate_OneTooFar(intentos) == ((intentos + 2) % Len(ring)) + 1

\* Index in ring of the process "next" points at after "intentos" more hops.
Candidate(intentos) == ((intentos + 1) % Len(ring)) + 1

\* Mutant: blocked processes are not skipped.
Skipped_DeadOnly(p) == state[p] = DEAD

Skipped(p) == state[p] \in {DEAD, BLOCKED}

\* The search loop stops after "intentos" hops.
SearchEnds(intentos) ==
    /\ \A i \in 0..(intentos - 1) : Skipped(ring[Candidate(i)])
    /\ intentos = MAX_PROCESSES \/ ~Skipped(ring[Candidate(intentos)])

Tick ==
    /\ scheduler_running
    /\ cpu.owner = Boot => tick_count < StartTicks
    /\ ticks_total' = [ticks_total EXCEPT ![current_process] = (@ + 1) % TickWrap]

\* Mutant: the quantum is one tick too long.
TickInQuantum_OneMore ==
    /\ Tick
    /\ tick_count + 1 <= ticks_quantum[current_process]
    /\ tick_count' = tick_count + 1
    /\ UNCHANGED <<ring, state, ticks_quantum, esp, scheduler_running, cpu,
                   position>>

\* Return the same ESP: the quantum is not used up.
TickInQuantum ==
    /\ Tick
    /\ tick_count + 1 < ticks_quantum[current_process]
    /\ tick_count' = tick_count + 1
    /\ UNCHANGED <<ring, state, ticks_quantum, esp, scheduler_running, cpu,
                   position>>

\* Mutant: the counter carries on from what is left of the quantum.
QuantumEnds_Carry ==
    /\ Tick
    /\ tick_count + 1 >= ticks_quantum[current_process]
    /\ tick_count' = tick_count - ticks_quantum[current_process]
    /\ esp' = [esp EXCEPT ![current_process] = cpu]
    /\ UNCHANGED <<ticks_quantum, scheduler_running, position>>

\* Mutant: ESP is not saved.
QuantumEnds_EspLost ==
    /\ Tick
    /\ tick_count + 1 >= ticks_quantum[current_process]
    /\ tick_count' = 0
    /\ UNCHANGED <<esp, ticks_quantum, scheduler_running, position>>

\* The quantum is used up: the counter restarts and ESP is saved.
QuantumEnds ==
    /\ Tick
    /\ tick_count + 1 >= ticks_quantum[current_process]
    /\ tick_count' = 0
    /\ esp' = [esp EXCEPT ![current_process] = cpu]
    /\ UNCHANGED <<ticks_quantum, scheduler_running, position>>

\* Nobody else to run.
TickKeeps ==
    /\ QuantumEnds
    /\ \E intentos \in 0..MAX_PROCESSES :
         LET next == ring[Candidate(intentos)] IN
         /\ SearchEnds(intentos)
         /\ next = current_process \/ state[next] = DEAD
    /\ UNCHANGED <<ring, state, cpu>>

\* Mutant: the process that loses the processor is still marked RUNNING.
TickSwitches_TwoRunning ==
    /\ QuantumEnds
    /\ \E intentos \in 0..MAX_PROCESSES :
         LET next == ring[Candidate(intentos)] IN
         /\ SearchEnds(intentos)
         /\ next # current_process /\ state[next] # DEAD
         /\ state' = [state EXCEPT ![next] = RUNNING]
         /\ ring' = Rotate(ring, Candidate(intentos))
         /\ cpu' = esp[next]

TickSwitches ==
    /\ QuantumEnds
    /\ \E intentos \in 0..MAX_PROCESSES :
         LET next == ring[Candidate(intentos)] IN
         /\ SearchEnds(intentos)
         /\ next # current_process /\ state[next] # DEAD
         /\ state' = [state EXCEPT ![current_process] = READY,
                                   ![next] = RUNNING]
         /\ ring' = Rotate(ring, Candidate(intentos))
         /\ cpu' = esp[next]

scheduler_tick == TickInQuantum \/ TickKeeps \/ TickSwitches

-----------------------------------------------------------------------------
Next ==
    \/ \E priority \in Priorities : process_create(priority)
    \/ process_exit
    \/ \E p \in Pid : process_block(p) \/ process_unblock(p)
    \/ Advance
    \/ scheduler_start
    \/ LoadFirst
    \/ scheduler_tick

Spec == Init /\ [][Next]_vars

\* The PIT ticks for ever and interrupts are enabled; kernel_main runs on to
\* scheduler_start and from there to its iret.
FairSpec == Spec /\ WF_vars(scheduler_tick)
                 /\ WF_vars(scheduler_start) /\ WF_vars(LoadFirst)

-----------------------------------------------------------------------------
\* Type invariant of the process table and the scheduler's variables.
TypeOK ==
    /\ ring \in Seq(Pid) /\ Len(ring) <= MaxPid
    /\ state \in [Pid -> States]
    /\ ticks_quantum \in [Pid -> Nat]
    /\ ticks_total \in [Pid -> 0..(TickWrap - 1)]
    /\ esp \in [Pid -> Contexts]
    /\ tick_count \in Nat
    /\ scheduler_running \in BOOLEAN
    /\ cpu \in Contexts
    /\ position \in [Pid -> Position]

\* Every process ever created is on the list exactly once: no sequence of
\* creations and switches loses a PCB or links one twice (process.c 59-67,
\* scheduler.c 43-60).
EachProcessOnce ==
    /\ \A p \in Pid : state[p] # NONE => \E i \in 1..Len(ring) : ring[i] = p
    /\ \A i, j \in 1..Len(ring) : ring[i] = ring[j] => i = j

\* At most one PCB says RUNNING, and it is the one whose instructions the
\* processor executes (or is about to, while scheduler_start prints), whatever
\* blocking, exiting and switching went before (scheduler.c 58-60, 77-78).
RunningHoldsCPU ==
    \A p \in Pid : state[p] = RUNNING =>
        /\ scheduler_running
        /\ p = current_process
        /\ cpu.owner \in {p, Boot}

\* Contexts are never mixed up or stale: the processor is where the current
\* process really is, and the esp of every other process is its own latest
\* context, so that switching to it resumes it exactly where it was
\* interrupted (scheduler.c 39 and 65, isr.asm 54-66).
ContextsIntact ==
    /\ cpu.owner # Boot =>
         cpu = Context(current_process, position[current_process])
    /\ \A p \in Pid : (state[p] # NONE /\ cpu.owner # p) =>
         esp[p] = Context(p, position[p])

\* The tick counter never reaches the quantum of the process it is charged to,
\* although one counter serves processes of different quanta (scheduler.c 31-36).
WithinQuantum ==
    ring # <<>> => tick_count < ticks_quantum[current_process]

\* A READY process never moves away from the processor, and moves strictly
\* closer to it at every switch: no other process, old or newly created,
\* overtakes it (process.c 59-67, scheduler.c 43-51).
NoOvertaking ==
    \A i \in 2..Len(ring) :
        state[ring[i]] = READY =>
            \E j \in 1..i : /\ ring'[j] = ring[i]
                            /\ ring'[1] # ring[1] => j < i
NeverOvertaken == [][NoOvertaking]_vars

\* The processor is given to a process that is not READY only when no process
\* at all is READY or RUNNING (scheduler.c 45-55).
SkipsUnlessIdle ==
    (current_process' # current_process /\ current_process # NULL
       /\ state[current_process'] # READY) =>
         \A p \in Pid : state[p] \in {NONE, DEAD, BLOCKED}
OnlyReadyDispatched == [][SkipsUnlessIdle]_vars

\* No starvation: a READY process gets the processor, unless it is blocked
\* first (scheduler.c 41-60).
ReadyGetsCPU ==
    \A p \in Pid : (state[p] = READY /\ scheduler_running) ~>
                       (cpu.owner = p \/ state[p] = BLOCKED)
=============================================================================
