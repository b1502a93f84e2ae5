------------------------------ MODULE RunList ------------------------------
(***************************************************************************)
(* The circular list of PCBs at the level of its pointers: process_create  *)
(* walks the list and links a PCB in several stores, scheduler_tick        *)
(* follows "next" pointers, and a tick can fall between any two steps of   *)
(* process_create once scheduler_running is set: elf_load calls it with    *)
(* the interrupts enabled.  One process at a time creates another (only    *)
(* the shell does).                                                        *)
(*                                                                         *)
(* The fields of the new PCB are filled in before it is linked; no pointer *)
(* leads to them until then, and they are written here where it is.        *)
(***************************************************************************)
EXTENDS Integers, Sequences

CONSTANTS
    MaxPid, MAX_PROCESSES, QuantumUnit, Priorities, StartTicks, TickWrap,
    Wild            \* what kmalloc's memory holds in a field not yet written

ASSUME ListAssumption ==
    /\ {MaxPid, QuantumUnit} \subseteq Nat \ {0} /\ Priorities \subseteq Nat \ {0}
    /\ {MAX_PROCESSES, StartTicks} \subseteq Nat /\ StartTicks < QuantumUnit
    /\ Wild \notin 0..MaxPid

VARIABLES
    next,               \* the PCBs' next
    head,               \* current_process
    made,               \* PCBs that have been linked: next_pid - 1
    create,             \* where process_create is, "idle" when it is not running
    caller,             \* the process running it
    tmp,                \* its local variable
    crashed,            \* the scheduler followed a Wild pointer
    state, ticks_quantum, ticks_total, esp, tick_count, scheduler_running, cpu,
    position            \* as in Scheduler

listVars == <<next, head, made, create, caller, tmp, crashed>>
pcbVars == <<state, ticks_quantum, ticks_total, esp, tick_count,
             scheduler_running, cpu, position>>
allVars == <<listVars, pcbVars>>

Pid == 1..MaxPid
NULL == 0

\* The "next" of the PCB p points at; through a wild pointer, anything.
Follow(p) == IF p = Wild THEN Wild ELSE next[p]

\* The list read through its pointers.  A PCB is on it from the store that
\* makes the list lead to it; its own "next" is the store that follows.
Closed ==
    IF create = "close" THEN [next EXCEPT ![made] = IF caller = NULL THEN head ELSE caller]
                        ELSE next
ReadList ==
    LET at[i \in 1..made] == IF i = 1 THEN head ELSE Closed[at[i - 1]]
    IN  [i \in 1..made |-> at[i]]

S == INSTANCE Scheduler WITH ring <- ReadList

ListInit ==
    /\ next = [p \in Pid |-> Wild]
    /\ head = NULL /\ made = 0
    /\ create = "idle" /\ caller = NULL /\ tmp = NULL
    /\ crashed = FALSE
    /\ S!Init

-----------------------------------------------------------------------------
(* process_create                                                          *)

Allocate ==
    /\ create = "idle" /\ ~crashed
    /\ S!BootExecutes \/ S!Executes(head)
    /\ made < MaxPid
    /\ caller' = cpu.owner
    /\ tmp' = head
    /\ create' = IF head = NULL THEN "first" ELSE "walk"
    /\ UNCHANGED <<next, head, made, crashed, pcbVars>>

\* The caller is executing, not one of the processes that preempted it.
InCreate(where) == create = where /\ cpu.owner = caller /\ ~crashed

\* The new PCB, with every field but "next" written.
Filled(p, priority) ==
    /\ made' = p
    /\ state' = [state EXCEPT ![p] = S!READY]
    /\ ticks_quantum' = [ticks_quantum EXCEPT ![p] = priority * QuantumUnit]
    /\ ticks_total' = [ticks_total EXCEPT ![p] = 0]
    /\ esp' = [esp EXCEPT ![p] = S!Context(p, 0)]
    /\ position' = [position EXCEPT ![p] = 0]
    /\ UNCHANGED <<caller, tmp, crashed, tick_count, scheduler_running, cpu>>

\* Mutant: the first PCB is not closed into a circle.
LinkFirst_Open(priority) ==
    /\ InCreate("first")
    /\ head' = made + 1
    /\ create' = "idle"
    /\ Filled(made + 1, priority)
    /\ UNCHANGED next

LinkFirst(priority) ==
    LET proc == made + 1 IN
    /\ InCreate("first")
    /\ next' = [next EXCEPT ![proc] = proc]
    /\ head' = proc
    /\ create' = "idle"
    /\ Filled(proc, priority)

CreateLocals == <<made, caller, crashed, pcbVars>>

WalkOn ==
    /\ InCreate("walk") /\ Follow(tmp) # head
    /\ tmp' = Follow(tmp)
    /\ UNCHANGED <<next, head, create, CreateLocals>>

\* Mutant: the walk waits for a NULL pointer instead of the head.
WalkEnds_ToNull ==
    /\ InCreate("walk") /\ Follow(tmp) = NULL
    /\ create' = "link"
    /\ UNCHANGED <<next, head, tmp, CreateLocals>>

WalkEnds ==
    /\ InCreate("walk") /\ Follow(tmp) = head
    /\ create' = "link"
    /\ UNCHANGED <<next, head, tmp, CreateLocals>>

\* Mutant: the PCB goes right behind the head.
LinkTail_AtHead(priority) ==
    LET proc == made + 1 IN
    /\ InCreate("link")
    /\ next' = [next EXCEPT ![head] = proc]
    /\ create' = "close"
    /\ Filled(proc, priority)
    /\ UNCHANGED head

LinkTail(priority) ==
    LET proc == made + 1 IN
    /\ InCreate("link")
    /\ next' = [next EXCEPT ![tmp] = proc]
    /\ create' = "close"
    /\ Filled(proc, priority)
    /\ UNCHANGED head

\* Mutant: the new PCB points back at the old tail.
LinkNew_Back ==
    /\ InCreate("close")
    /\ next' = [next EXCEPT ![made] = tmp]
    /\ create' = "idle"
    /\ UNCHANGED <<head, tmp, CreateLocals>>

LinkNew ==
    /\ InCreate("close")
    /\ next' = [next EXCEPT ![made] = head]
    /\ create' = "idle"
    /\ UNCHANGED <<head, tmp, CreateLocals>>

CreateSteps ==
    \/ \E n \in Priorities : LinkFirst(n) \/ LinkTail(n)
    \/ WalkOn \/ WalkEnds \/ LinkNew

-----------------------------------------------------------------------------
(* scheduler_tick                                                          *)

\* The pointer "next" of the search after "intentos" hops.
Hop ==
    LET hop[i \in 0..MAX_PROCESSES] ==
          Follow(IF i = 0 THEN head ELSE hop[i - 1])
    IN  hop

Skipped(p) == p # Wild /\ state[p] \in {S!DEAD, S!BLOCKED}
SearchReaches(i) == \A k \in 0..(i - 1) : Skipped(Hop[k])
SearchEnds(i) == SearchReaches(i) /\ (i = MAX_PROCESSES \/ ~Skipped(Hop[i]))

TickTaken ==
    /\ ~crashed
    /\ scheduler_running
    /\ cpu.owner = S!Boot => tick_count < StartTicks
    /\ ticks_total' = [ticks_total EXCEPT ![head] = (@ + 1) % TickWrap]
    /\ UNCHANGED <<next, made, create, caller, tmp, ticks_quantum,
                   scheduler_running, position>>

InQuantum ==
    /\ TickTaken
    /\ tick_count + 1 < ticks_quantum[head]
    /\ tick_count' = tick_count + 1
    /\ UNCHANGED <<head, crashed, state, esp, cpu>>

QuantumEnds ==
    /\ TickTaken
    /\ tick_count + 1 >= ticks_quantum[head]
    /\ tick_count' = 0
    /\ esp' = [esp EXCEPT ![head] = cpu]

Keeps ==
    /\ QuantumEnds
    /\ \E i \in 0..MAX_PROCESSES :
         /\ SearchEnds(i) /\ Hop[i] # Wild
         /\ Hop[i] = head \/ state[Hop[i]] = S!DEAD
    /\ UNCHANGED <<head, crashed, state, cpu>>

Switches ==
    /\ QuantumEnds
    /\ \E i \in 0..MAX_PROCESSES :
         /\ SearchEnds(i) /\ Hop[i] # Wild
         /\ Hop[i] # head /\ state[Hop[i]] # S!DEAD
         /\ state' = [state EXCEPT ![head] = S!READY, ![Hop[i]] = S!RUNNING]
         /\ head' = Hop[i]
         /\ cpu' = esp[Hop[i]]
    /\ UNCHANGED crashed

\* The state of whatever the uninitialized pointer points at is read: what
\* happens next is undefined.
FollowsWild ==
    /\ QuantumEnds
    /\ \E i \in 0..MAX_PROCESSES : SearchReaches(i) /\ Hop[i] = Wild
    /\ crashed' = TRUE
    /\ UNCHANGED <<head, state, cpu>>

TickStep == InQuantum \/ Keeps \/ Switches \/ FollowsWild

-----------------------------------------------------------------------------
\* What leaves the list alone is as in Scheduler; the caller of
\* process_create does nothing else until it has returned.
Elsewhere ==
    /\ ~crashed
    /\ create = "idle" \/ cpu.owner # caller
    /\ UNCHANGED listVars
    /\ \/ S!process_exit
       \/ \E p \in Pid : S!process_block(p) \/ S!process_unblock(p)
       \/ S!Advance
       \/ S!scheduler_start
       \/ S!LoadFirst

ListNext ==
    \/ Allocate
    \/ CreateSteps
    \/ TickStep
    \/ Elsewhere

ListSpec == ListInit /\ [][ListNext]_allVars

\* The timer ticks, and a caller that keeps getting the processor runs on.
FairListSpec == ListSpec /\ WF_allVars(TickStep) /\ SF_allVars(CreateSteps)

-----------------------------------------------------------------------------
\* Following "next" from any PCB meets every other one before it comes back:
\* the list is one cycle of all PCBs whenever process_create is not at work,
\* although ticks move current_process while it is (process.c 59-67).
OneCycle ==
    create = "idle" =>
        \A p \in 1..made :
            LET from[i \in 0..made] == IF i = 0 THEN p ELSE next[from[i - 1]]
            IN  /\ \A q \in 1..made : \E i \in 0..(made - 1) : from[i] = q
                /\ from[made] = p

\* The only moment at which a tick does harm is between the last two stores of
\* process_create, when the list already leads to a PCB that leads nowhere
\* (process.c 65-66).
HarmOnlyBeforeLastStore == crashed => create = "close"

\* As long as no tick has done that harm, the pointers implement the sequence
\* of Scheduler, wherever ticks fall in process_create: the creation takes
\* effect at one instant, the PCB comes last in turn after its creator, and the
\* search loop visits the PCBs in the order of the sequence (process.c 59-67,
\* scheduler.c 43-60).
ImplementsRing == S!Init /\ [][crashed' \/ [S!Next]_(S!vars)]_allVars

\* process_create returns: however the list has grown and whichever process is
\* current when it goes on, its walk finds the end (process.c 63-64).
CreateReturns ==
    create # "idle" ~>
        (create = "idle" \/ crashed \/ (caller # NULL /\ state[caller] = S!BLOCKED))

\* shell.c 161-164: with interrupts enabled, process_create does not corrupt
\* the scheduler.
NeverWild == ~crashed
=============================================================================
