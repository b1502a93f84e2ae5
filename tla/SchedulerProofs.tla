--------------------------- MODULE SchedulerProofs ---------------------------
(***************************************************************************)
(* Machine-checked proofs about Scheduler, for every value of its          *)
(* constants that satisfies the module's assumptions.                      *)
(***************************************************************************)
EXTENDS SchedulerRefinement, LeastNumber, SequenceTheorems

-----------------------------------------------------------------------------
(* Reading the list from another element on.                               *)

\* Rotating a list keeps its length and starts it at the chosen element.
LEMMA RotateShape ==
    ASSUME NEW S, NEW s \in Seq(S), NEW j \in 1..Len(s)
    PROVE  /\ Rotate(s, j) \in Seq(S)
           /\ Len(Rotate(s, j)) = Len(s)
           /\ Rotate(s, j)[1] = s[j]
<1>1. Len(s) \in Nat
  OBVIOUS
<1>2. \A i \in 1..Len(s) : Rotate(s, j)[i] \in S
  BY <1>1 DEF Rotate
<1>3. Rotate(s, j) \in [1..Len(s) -> S]
  BY <1>2 DEF Rotate
<1>4. Rotate(s, j) \in Seq(S) /\ Len(Rotate(s, j)) = Len(s)
  BY <1>1, <1>3
<1>5. Rotate(s, j)[1] = s[j]
  BY <1>1 DEF Rotate
<1> QED BY <1>4, <1>5

\* Where the i-th element of a list is after a rotation.
LEMMA RotateMoves ==
    ASSUME NEW S, NEW s \in Seq(S), NEW j \in 1..Len(s), NEW i \in 1..Len(s)
    PROVE  LET to == IF i >= j THEN i - j + 1 ELSE i - j + 1 + Len(s)
           IN  to \in 1..Len(s) /\ Rotate(s, j)[to] = s[i]
<1>1. Len(s) \in Nat
  OBVIOUS
<1> DEFINE to == IF i >= j THEN i - j + 1 ELSE i - j + 1 + Len(s)
<1>2. to \in 1..Len(s)
  BY <1>1
<1>3. Rotate(s, j)[to] = s[i]
  BY <1>1, <1>2 DEF Rotate
<1> QED BY <1>2, <1>3

\* Where the i-th element of a rotated list comes from.
LEMMA RotateFrom ==
    ASSUME NEW S, NEW s \in Seq(S), NEW j \in 1..Len(s), NEW i \in 1..Len(s)
    PROVE  LET from == IF i + j - 1 <= Len(s) THEN i + j - 1
                                              ELSE i + j - 1 - Len(s)
           IN  from \in 1..Len(s) /\ Rotate(s, j)[i] = s[from]
<1>1. Len(s) \in Nat
  OBVIOUS
<1> QED BY <1>1 DEF Rotate

\* Rotating a list without repetitions gives a list without repetitions.
LEMMA RotateInjective ==
    ASSUME NEW S, NEW s \in Seq(S), NEW j \in 1..Len(s),
           \A a, b \in 1..Len(s) : s[a] = s[b] => a = b
    PROVE  \A a, b \in 1..Len(s) :
             Rotate(s, j)[a] = Rotate(s, j)[b] => a = b
<1> TAKE a, b \in 1..Len(s)
<1> HAVE Rotate(s, j)[a] = Rotate(s, j)[b]
<1>1. Len(s) \in Nat
  OBVIOUS
<1> DEFINE from(i) == IF i + j - 1 <= Len(s) THEN i + j - 1
                                             ELSE i + j - 1 - Len(s)
<1>2. \A i \in 1..Len(s) : from(i) \in 1..Len(s) /\ Rotate(s, j)[i] = s[from(i)]
  BY RotateFrom
<1>3. from(a) = from(b)
  BY <1>2
<1> QED BY <1>1, <1>3

\* The search only looks at elements of the list.
LEMMA CandidateInList ==
    ASSUME NEW k \in Nat, ring # <<>>, ring \in Seq(Pid)
    PROVE  Candidate(k) \in 1..Len(ring)
<1>1. Len(ring) \in Nat \ {0}
  OBVIOUS
<1>2. (k + 1) % Len(ring) \in 0..(Len(ring) - 1)
  BY <1>1
<1> QED BY <1>1, <1>2 DEF Candidate

\* Before the search has gone round the list it has looked at the second
\* element, then the third, and so on.
LEMMA CandidateFirstRound ==
    ASSUME NEW k \in Nat, ring \in Seq(Pid), k + 1 < Len(ring)
    PROVE  Candidate(k) = k + 2
<1>1. Len(ring) \in Nat \ {0}
  OBVIOUS
<1>2. (k + 1) % Len(ring) = k + 1
  BY <1>1
<1> QED BY <1>1, <1>2 DEF Candidate

\* The element after the last one is the current process again.
LEMMA CandidateComesRound ==
    ASSUME ring \in Seq(Pid), ring # <<>>
    PROVE  Candidate(Len(ring) - 1) = 1
<1>1. Len(ring) \in Nat \ {0}
  OBVIOUS
<1>2. Len(ring) % Len(ring) = 0
  BY <1>1
<1> QED BY <1>1, <1>2 DEF Candidate

-----------------------------------------------------------------------------
(* The inductive invariant.                                                *)

\* The pids in use are those of the processes on the list: 1..Len(ring).
PidsInUse ==
    /\ \A p \in Pid : state[p] # NONE <=> p <= Len(ring)
    /\ \A i \in 1..Len(ring) : ring[i] <= Len(ring)

\* A quantum is at least one unit, and the present one has not run out.
QuantaPositive ==
    \A p \in Pid : state[p] # NONE => ticks_quantum[p] >= QuantumUnit

\* Who the processor works for, before, during and after scheduler_start.
Phases ==
    /\ scheduler_running => ring # <<>>
    /\ ~scheduler_running => cpu.owner = Boot /\ tick_count = 0
    /\ cpu.owner = Boot => tick_count <= StartTicks
    /\ cpu.owner # Boot => ring # <<>> /\ cpu.owner = current_process

IInv ==
    /\ TypeOK
    /\ EachProcessOnce
    /\ PidsInUse
    /\ QuantaPositive
    /\ WithinQuantum
    /\ Phases
    /\ RunningHoldsCPU
    /\ ContextsIntact

\* The elements of the list are pids in use.
LEMMA RingElements ==
    ASSUME TypeOK, PidsInUse
    PROVE  /\ Len(ring) \in Nat /\ Len(ring) <= MaxPid
           /\ \A i \in 1..Len(ring) :
                 /\ ring[i] \in Pid
                 /\ ring[i] \in 1..Len(ring)
                 /\ state[ring[i]] # NONE
<1>1. ring \in Seq(Pid) /\ Len(ring) \in Nat /\ Len(ring) <= MaxPid
  BY DEF TypeOK
<1>2. \A i \in 1..Len(ring) : ring[i] \in Pid
  BY <1>1
<1>3. \A i \in 1..Len(ring) : ring[i] <= Len(ring)
  BY DEF PidsInUse
<1>4. \A i \in 1..Len(ring) : state[ring[i]] # NONE
  BY <1>2, <1>3 DEF PidsInUse
<1> QED BY <1>1, <1>2, <1>3, <1>4 DEF Pid

USE DEF Pid, NULL, Boot, NONE, READY, RUNNING, BLOCKED, DEAD, States,
        Halted, Position, Context, Contexts

\* The invariant holds when kernel_main has called process_init and
\* scheduler_init.
LEMMA InitIInv == Init => IInv
<1> SUFFICES ASSUME Init PROVE IInv
  OBVIOUS
<1> USE SizeAssumption, QuantumAssumption, StartAssumption, WrapAssumption
<1>1. ring = <<>> /\ Len(ring) = 0 /\ ring \in Seq(Pid)
  BY DEF Init
<1>2. TypeOK
  <2>1. 0 \in 0..(TickWrap - 1) /\ Context(Boot, 0) \in Contexts
    OBVIOUS
  <2>2. ring \in Seq(Pid) /\ Len(ring) <= MaxPid /\ tick_count \in Nat
    BY <1>1 DEF Init
  <2>3. state \in [Pid -> States] /\ ticks_quantum \in [Pid -> Nat]
    BY DEF Init
  <2>4. /\ ticks_total \in [Pid -> 0..(TickWrap - 1)]
        /\ esp \in [Pid -> Contexts] /\ cpu \in Contexts
        /\ position \in [Pid -> Position]
    BY <2>1 DEF Init
  <2>5. scheduler_running \in BOOLEAN
    BY DEF Init
  <2> QED BY <2>2, <2>3, <2>4, <2>5 DEF TypeOK
<1>3. EachProcessOnce /\ PidsInUse /\ QuantaPositive /\ WithinQuantum
  BY <1>1 DEF Init, EachProcessOnce, PidsInUse, QuantaPositive, WithinQuantum
<1>4. Phases /\ RunningHoldsCPU /\ ContextsIntact
  BY <1>1 DEF Init, Phases, RunningHoldsCPU, ContextsIntact, current_process
<1> QED BY <1>2, <1>3, <1>4 DEF IInv

\* process_create preserves the invariant.
LEMMA CreatePreserves ==
    ASSUME IInv, NEW n \in Priorities, process_create(n)
    PROVE  IInv'
<1> USE SizeAssumption, QuantumAssumption, StartAssumption, WrapAssumption
<1> USE DEF IInv
<1> DEFINE new == Len(ring) + 1
<1>1. Len(ring) \in Nat /\ new \in Pid /\ state[new] = NONE
  BY DEF TypeOK, PidsInUse, process_create
<1>2. /\ ring' \in Seq(Pid) /\ Len(ring') = new
      /\ \A i \in 1..Len(ring) : ring'[i] = ring[i]
      /\ ring'[new] = new
  BY <1>1 DEF TypeOK, process_create, next_pid
<1>3. n * QuantumUnit \in Nat /\ n * QuantumUnit >= QuantumUnit
  OBVIOUS
<1>4. TypeOK'
  <2>1. new <= MaxPid /\ 0 \in 0..(TickWrap - 1)
    BY <1>1
  <2>2. ring' \in Seq(Pid) /\ Len(ring') <= MaxPid
    BY <1>2, <2>1
  <2>3. /\ state' \in [Pid -> States] /\ ticks_quantum' \in [Pid -> Nat]
        /\ ticks_total' \in [Pid -> 0..(TickWrap - 1)]
    BY <1>1, <1>3, <2>1 DEF TypeOK, process_create, next_pid
  <2>4. esp' \in [Pid -> Contexts] /\ position' \in [Pid -> Position]
    BY <1>1 DEF TypeOK, process_create, next_pid
  <2>5. tick_count' \in Nat /\ scheduler_running' \in BOOLEAN /\ cpu' \in Contexts
    BY DEF TypeOK, process_create
  <2> QED BY <2>2, <2>3, <2>4, <2>5 DEF TypeOK
<1>5. PidsInUse'
  <2>1. \A p \in Pid : state'[p] # NONE <=> p <= new
    <3> TAKE p \in Pid
    <3>1. state'[p] # NONE <=> (p = new \/ state[p] # NONE)
      BY <1>1 DEF TypeOK, process_create, next_pid
    <3> QED BY <1>1, <3>1 DEF PidsInUse
  <2>2. \A i \in 1..new : ring'[i] <= new
    <3> TAKE i \in 1..new
    <3>1. CASE i = new
      BY <1>1, <1>2, <3>1
    <3>2. CASE i \in 1..Len(ring)
      <4>1. ring[i] \in Pid /\ ring[i] <= Len(ring) /\ ring'[i] = ring[i]
        BY <1>2, <3>2, RingElements
      <4> QED BY <1>1, <4>1
    <3> QED BY <1>1, <3>1, <3>2
  <2> QED BY <1>2, <2>1, <2>2 DEF PidsInUse
<1>6. EachProcessOnce'
  <2>1. ASSUME NEW p \in Pid, state'[p] # NONE
        PROVE  \E i \in 1..new : ring'[i] = p
    <3>1. CASE p = new
      BY <1>1, <1>2, <3>1
    <3>2. CASE p # new
      <4>1. state[p] # NONE
        BY <1>1, <2>1, <3>2 DEF TypeOK, process_create, next_pid
      <4>2. PICK i \in 1..Len(ring) : ring[i] = p
        BY <4>1 DEF EachProcessOnce
      <4> QED BY <1>1, <1>2, <4>2
    <3> QED BY <3>1, <3>2
  <2>2. ASSUME NEW i \in 1..new, NEW j \in 1..new, ring'[i] = ring'[j]
        PROVE  i = j
    <3>1. \A k \in 1..Len(ring) : ring'[k] # new
      BY <1>1, <1>2 DEF PidsInUse, TypeOK
    <3> QED BY <1>1, <1>2, <2>2, <3>1 DEF EachProcessOnce
  <2> QED BY <1>2, <2>1, <2>2 DEF EachProcessOnce
<1>7. QuantaPositive'
  BY <1>1, <1>3 DEF QuantaPositive, TypeOK, process_create, next_pid
<1>9. ring' # <<>> /\ current_process' = ring'[1]
  BY <1>1, <1>2 DEF current_process
<1>8. ASSUME ring # <<>>
      PROVE  current_process' = current_process /\ current_process \in 1..Len(ring)
  <2>1. 1 \in 1..Len(ring) /\ ring[1] \in Pid
    <3>1. ring \in Seq(Pid) /\ Len(ring) \in Nat \ {0}
      BY <1>8 DEF TypeOK
    <3> QED BY <3>1
  <2> QED BY <1>2, <1>8, <1>9, <2>1 DEF current_process, PidsInUse
<1>10. WithinQuantum'
  <2>1. CASE ring = <<>>
    <3>1. tick_count = 0 /\ ring'[1] = new
      BY <1>2, <2>1 DEF Phases
    <3>2. current_process' = new /\ tick_count' = 0
      BY <1>9, <3>1 DEF process_create
    <3>3. ticks_quantum'[new] = n * QuantumUnit
      BY <1>1 DEF TypeOK, process_create, next_pid
    <3> QED BY <1>3, <3>2, <3>3 DEF WithinQuantum
  <2>2. CASE ring # <<>>
    <3>1. current_process' = current_process /\ current_process \in 1..Len(ring)
      BY <1>8, <2>2
    <3>2. ticks_quantum'[current_process] = ticks_quantum[current_process]
      BY <1>1, <3>1 DEF TypeOK, process_create, next_pid
    <3>3. tick_count' = tick_count
      BY DEF process_create
    <3> QED BY <2>2, <3>1, <3>2, <3>3 DEF WithinQuantum
  <2> QED BY <2>1, <2>2
<1>11. Phases'
  BY <1>1, <1>2, <1>8, <1>9 DEF Phases, process_create, current_process
<1>12. RunningHoldsCPU'
  BY <1>1, <1>2, <1>8, <1>9
     DEF RunningHoldsCPU, Phases, TypeOK, process_create, next_pid
<1>13. ContextsIntact'
  <2>1. cpu.owner # Boot =>
          cpu' = Context(current_process', position'[current_process'])
    BY <1>1, <1>8 DEF ContextsIntact, Phases, TypeOK, process_create, next_pid
  <2>2. ASSUME NEW p \in Pid, state'[p] # NONE, cpu'.owner # p
        PROVE  esp'[p] = Context(p, position'[p])
    BY <1>1, <2>2 DEF ContextsIntact, TypeOK, process_create, next_pid
  <2> QED BY <2>1, <2>2 DEF ContextsIntact, process_create
<1> QED BY <1>4, <1>5, <1>6, <1>7, <1>10, <1>11, <1>12, <1>13

\* What is known of the current process when the list is not empty.
LEMMA CurrentProcess ==
    ASSUME IInv, ring # <<>>
    PROVE  /\ current_process = ring[1]
           /\ 1 \in 1..Len(ring)
           /\ current_process \in Pid
           /\ state[current_process] # NONE
<1>1. TypeOK /\ PidsInUse
  BY DEF IInv
<1>2. 1 \in 1..Len(ring)
  BY <1>1 DEF TypeOK
<1> QED BY <1>1, <1>2, RingElements DEF current_process

\* A process that executes code is current, and the processor is where it is.
LEMMA ExecutingIsCurrent ==
    ASSUME IInv, Executes(current_process)
    PROVE  /\ ring # <<>> /\ scheduler_running
           /\ current_process \in Pid
           /\ state[current_process] # NONE
           /\ cpu = Context(current_process, position[current_process])
           /\ position[current_process] \in {0, 1}
<1>1. cpu.owner # Boot /\ cpu.at # Halted /\ cpu.owner = current_process
  BY DEF Executes
<1>2. ring # <<>> /\ scheduler_running
  BY <1>1 DEF IInv, Phases
<1>3. cpu = Context(current_process, position[current_process])
  BY <1>1 DEF IInv, ContextsIntact
<1>4. current_process \in Pid /\ state[current_process] # NONE
  BY <1>2, CurrentProcess
<1>5. position[current_process] \in {0, 1}
  BY <1>1, <1>3, <1>4 DEF IInv, TypeOK
<1> QED BY <1>2, <1>3, <1>4, <1>5

\* process_exit preserves the invariant.
LEMMA ExitPreserves ==
    ASSUME IInv, process_exit
    PROVE  IInv'
<1> DEFINE c == current_process
<1>1. /\ ring # <<>> /\ scheduler_running /\ c \in Pid /\ state[c] # NONE
      /\ cpu = Context(c, position[c])
  BY ExecutingIsCurrent DEF process_exit
<1>2. ring' = ring /\ current_process' = c
  BY DEF process_exit, current_process
<1>3. TypeOK'
  BY <1>1 DEF IInv, TypeOK, process_exit
<1>4. \A p \in Pid : state'[p] # NONE <=> state[p] # NONE
  BY <1>1 DEF IInv, TypeOK, process_exit
<1>5. EachProcessOnce' /\ PidsInUse' /\ QuantaPositive'
  BY <1>2, <1>4 DEF IInv, EachProcessOnce, PidsInUse, QuantaPositive, process_exit
<1>6. WithinQuantum'
  BY <1>2 DEF IInv, WithinQuantum, process_exit
<1>7. cpu'.owner = cpu.owner /\ cpu'.at = Halted /\ cpu' = Context(c, Halted)
  BY <1>1 DEF process_exit, IInv, TypeOK
<1>8. Phases'
  BY <1>2, <1>7 DEF IInv, Phases, process_exit
<1>9. RunningHoldsCPU'
  BY <1>1, <1>2, <1>7 DEF IInv, TypeOK, RunningHoldsCPU, process_exit
<1>10. ContextsIntact'
  <2>1. position'[c] = Halted
    BY <1>1 DEF IInv, TypeOK, process_exit
  <2>2. ASSUME NEW p \in Pid, state'[p] # NONE, cpu'.owner # p
        PROVE  esp'[p] = Context(p, position'[p])
    <3>1. p # c /\ cpu.owner # p /\ state[p] # NONE
      BY <1>1, <1>4, <1>7, <2>2
    <3>2. position'[p] = position[p] /\ esp' = esp
      BY <3>1 DEF IInv, TypeOK, process_exit
    <3> QED BY <3>1, <3>2 DEF IInv, ContextsIntact
  <2> QED BY <1>2, <1>7, <2>1, <2>2 DEF ContextsIntact
<1> QED BY <1>3, <1>5, <1>6, <1>8, <1>9, <1>10 DEF IInv

\* Setting the state of one process to something that is not RUNNING, or to
\* what it is, preserves the invariant when nothing else changes.
LEMMA StateChangePreserves ==
    ASSUME IInv, NEW p \in Pid, NEW s \in {READY, BLOCKED}, state[p] # NONE,
           state' = [state EXCEPT ![p] = s],
           UNCHANGED <<ring, ticks_quantum, ticks_total, esp, tick_count,
                       scheduler_running, cpu, position>>
    PROVE  IInv'
<1>1. current_process' = current_process
  BY DEF current_process
<1>2. TypeOK'
  BY DEF IInv, TypeOK
<1>3. \A q \in Pid : state'[q] # NONE <=> state[q] # NONE
  BY DEF IInv, TypeOK
<1>4. EachProcessOnce' /\ PidsInUse' /\ QuantaPositive'
  BY <1>3 DEF IInv, EachProcessOnce, PidsInUse, QuantaPositive
<1>5. WithinQuantum' /\ Phases'
  BY <1>1 DEF IInv, WithinQuantum, Phases
<1>6. \A q \in Pid : state'[q] = RUNNING => state[q] = RUNNING
  BY DEF IInv, TypeOK
<1>7. RunningHoldsCPU'
  BY <1>1, <1>6 DEF IInv, RunningHoldsCPU
<1>8. ContextsIntact'
  BY <1>1, <1>3 DEF IInv, ContextsIntact
<1> QED BY <1>2, <1>4, <1>5, <1>7, <1>8 DEF IInv

\* Advance preserves the invariant.
LEMMA AdvancePreserves ==
    ASSUME IInv, Advance
    PROVE  IInv'
<1> DEFINE c == current_process
<1>1. /\ ring # <<>> /\ scheduler_running /\ c \in Pid /\ state[c] # NONE
      /\ cpu = Context(c, position[c])
      /\ position[c] \in {0, 1}
  BY ExecutingIsCurrent DEF Advance
<1>2. ring' = ring /\ current_process' = c
  BY DEF Advance, current_process
<1>3. cpu'.owner = cpu.owner /\ cpu' = Context(c, 1 - position[c])
  BY <1>1 DEF Advance, IInv, TypeOK
<1>4. position'[c] = 1 - position[c] /\ position' \in [Pid -> Position]
  BY <1>1 DEF IInv, TypeOK, Advance
<1>5. TypeOK'
  BY <1>1, <1>3, <1>4 DEF IInv, TypeOK, Advance
<1>6. EachProcessOnce' /\ PidsInUse' /\ QuantaPositive'
  BY <1>2 DEF IInv, EachProcessOnce, PidsInUse, QuantaPositive, Advance
<1>7. WithinQuantum' /\ Phases'
  BY <1>2, <1>3 DEF IInv, WithinQuantum, Phases, Advance
<1>8. RunningHoldsCPU'
  BY <1>2, <1>3 DEF IInv, RunningHoldsCPU, Advance
<1>9. ContextsIntact'
  <2>1. ASSUME NEW p \in Pid, state'[p] # NONE, cpu'.owner # p
        PROVE  esp'[p] = Context(p, position'[p])
    <3>1. p # c /\ cpu.owner # p /\ state[p] # NONE
      BY <1>1, <1>3, <2>1 DEF Advance
    <3>2. position'[p] = position[p] /\ esp' = esp
      BY <3>1 DEF IInv, TypeOK, Advance
    <3> QED BY <3>1, <3>2 DEF IInv, ContextsIntact
  <2> QED BY <1>2, <1>3, <1>4, <2>1 DEF ContextsIntact
<1> QED BY <1>5, <1>6, <1>7, <1>8, <1>9 DEF IInv

\* scheduler_start preserves the invariant.
LEMMA StartPreserves ==
    ASSUME IInv, scheduler_start
    PROVE  IInv'
<1> DEFINE c == current_process
<1>1. ring # <<>> /\ cpu.owner = Boot /\ ~scheduler_running
  BY DEF scheduler_start, BootExecutes, current_process
<1>2. c \in Pid /\ state[c] # NONE
  BY <1>1, CurrentProcess
<1>3. ring' = ring /\ current_process' = c /\ scheduler_running' = TRUE
  BY DEF scheduler_start, current_process
<1>4. TypeOK'
  BY <1>2 DEF IInv, TypeOK, scheduler_start
<1>5. \A q \in Pid : state'[q] # NONE <=> state[q] # NONE
  BY <1>2 DEF IInv, TypeOK, scheduler_start
<1>6. EachProcessOnce' /\ PidsInUse' /\ QuantaPositive'
  BY <1>3, <1>5 DEF IInv, EachProcessOnce, PidsInUse, QuantaPositive, scheduler_start
<1>7. WithinQuantum' /\ Phases'
  BY <1>1, <1>3 DEF IInv, WithinQuantum, Phases, scheduler_start
<1>8. RunningHoldsCPU'
  <2>1. \A q \in Pid : state[q] # RUNNING
    BY <1>1 DEF IInv, RunningHoldsCPU
  <2>2. \A q \in Pid : state'[q] = RUNNING => q = c
    BY <1>2, <2>1 DEF IInv, TypeOK, scheduler_start
  <2> QED BY <1>1, <1>3, <2>2 DEF RunningHoldsCPU, scheduler_start
<1>9. ContextsIntact'
  BY <1>3, <1>5 DEF IInv, ContextsIntact, scheduler_start
<1> QED BY <1>4, <1>6, <1>7, <1>8, <1>9 DEF IInv

\* Loading the first context preserves the invariant.
LEMMA LoadFirstPreserves ==
    ASSUME IInv, LoadFirst
    PROVE  IInv'
<1> DEFINE c == current_process
<1>1. ring # <<>> /\ cpu.owner = Boot /\ scheduler_running
  BY DEF LoadFirst, IInv, Phases
<1>2. c \in Pid /\ state[c] # NONE
  BY <1>1, CurrentProcess
<1>3. current_process' = c
  BY DEF LoadFirst, current_process
<1>4. esp[c] = Context(c, position[c])
  BY <1>1, <1>2 DEF IInv, ContextsIntact
<1>5. cpu' = Context(c, position[c]) /\ cpu'.owner = c
  BY <1>4 DEF LoadFirst
<1>6. TypeOK'
  BY <1>2 DEF IInv, TypeOK, LoadFirst
<1>7. EachProcessOnce' /\ PidsInUse' /\ QuantaPositive' /\ WithinQuantum'
  BY <1>3 DEF IInv, EachProcessOnce, PidsInUse, QuantaPositive, WithinQuantum, LoadFirst
<1>8. Phases'
  BY <1>1, <1>2, <1>3, <1>5 DEF IInv, Phases, LoadFirst
<1>9. RunningHoldsCPU'
  BY <1>1, <1>3, <1>5 DEF IInv, RunningHoldsCPU, LoadFirst
<1>10. ContextsIntact'
  BY <1>1, <1>3, <1>5 DEF IInv, ContextsIntact, LoadFirst
<1> QED BY <1>6, <1>7, <1>8, <1>9, <1>10 DEF IInv

\* A tick is charged to a known process, and quanta end only once the first
\* context is loaded: the start window is shorter than any quantum.
LEMMA TickCharges ==
    ASSUME IInv, Tick
    PROVE  /\ ring # <<>> /\ current_process \in Pid
           /\ state[current_process] # NONE
           /\ ticks_total' \in [Pid -> 0..(TickWrap - 1)]
           /\ tick_count + 1 >= ticks_quantum[current_process] =>
                /\ cpu.owner = current_process
                /\ cpu = Context(current_process, position[current_process])
<1>1. scheduler_running /\ ring # <<>>
  BY DEF Tick, IInv, Phases
<1>2. current_process \in Pid /\ state[current_process] # NONE
  BY <1>1, CurrentProcess
<1>3. \A n \in Nat : (n + 1) % TickWrap \in 0..(TickWrap - 1)
  BY WrapAssumption
<1>4. ticks_total' \in [Pid -> 0..(TickWrap - 1)]
  BY <1>2, <1>3, WrapAssumption DEF Tick, IInv, TypeOK
<1>5. ASSUME tick_count + 1 >= ticks_quantum[current_process]
      PROVE  cpu.owner # Boot
  <2>1. ticks_quantum[current_process] >= QuantumUnit
    BY <1>2 DEF IInv, QuantaPositive
  <2>2. ASSUME cpu.owner = Boot PROVE FALSE
    <3>1. tick_count < StartTicks /\ tick_count \in Nat
      BY <2>2 DEF Tick, IInv, TypeOK
    <3>2. ticks_quantum[current_process] \in Nat
      BY <1>2 DEF IInv, TypeOK
    <3> QED BY <1>5, <2>1, <3>1, <3>2, StartAssumption, QuantumAssumption
  <2> QED BY <2>2
<1>6. cpu.owner # Boot =>
        /\ cpu.owner = current_process
        /\ cpu = Context(current_process, position[current_process])
  BY DEF IInv, Phases, ContextsIntact
<1> QED BY <1>1, <1>2, <1>4, <1>5, <1>6

\* A tick within the quantum preserves the invariant.
LEMMA InQuantumPreserves ==
    ASSUME IInv, TickInQuantum
    PROVE  IInv'
<1>1. Tick /\ ring # <<>> /\ ticks_total' \in [Pid -> 0..(TickWrap - 1)]
  BY TickCharges DEF TickInQuantum
<1>2. current_process' = current_process
  BY DEF TickInQuantum, current_process
<1>3. TypeOK'
  BY <1>1 DEF IInv, TypeOK, TickInQuantum
<1>4. EachProcessOnce' /\ PidsInUse' /\ QuantaPositive' /\ WithinQuantum'
  BY <1>2 DEF IInv, EachProcessOnce, PidsInUse, QuantaPositive, WithinQuantum,
              TickInQuantum
<1>5. Phases'
  <2>1. scheduler_running /\ (cpu.owner = Boot => tick_count < StartTicks)
    BY <1>1 DEF Tick
  <2>2. cpu'.owner = Boot => tick_count' <= StartTicks
    BY <2>1, StartAssumption DEF TickInQuantum, IInv, TypeOK
  <2> QED BY <1>2, <2>1, <2>2 DEF IInv, Phases, TickInQuantum
<1>6. RunningHoldsCPU' /\ ContextsIntact'
  BY <1>2 DEF IInv, RunningHoldsCPU, ContextsIntact, TickInQuantum
<1> QED BY <1>3, <1>4, <1>5, <1>6 DEF IInv

\* A tick that ends the quantum of the only process able to run preserves the
\* invariant.
LEMMA KeepsPreserves ==
    ASSUME IInv, TickKeeps
    PROVE  IInv'
<1> DEFINE c == current_process
<1>1. QuantumEnds /\ Tick /\ UNCHANGED <<ring, state, cpu>>
  BY DEF TickKeeps, QuantumEnds
<1>2. /\ ring # <<>> /\ c \in Pid /\ state[c] # NONE
      /\ ticks_total' \in [Pid -> 0..(TickWrap - 1)]
      /\ cpu.owner = c /\ cpu = Context(c, position[c])
  BY <1>1, TickCharges DEF QuantumEnds
<1>3. current_process' = c
  BY <1>1 DEF current_process
<1>4. TypeOK'
  BY <1>1, <1>2 DEF IInv, TypeOK, QuantumEnds
<1>5. EachProcessOnce' /\ PidsInUse' /\ QuantaPositive'
  BY <1>1, <1>3 DEF IInv, EachProcessOnce, PidsInUse, QuantaPositive, QuantumEnds
<1>6. WithinQuantum'
  <2>1. ticks_quantum[c] >= QuantumUnit /\ ticks_quantum[c] \in Nat
    BY <1>2 DEF IInv, TypeOK, QuantaPositive
  <2> QED BY <1>1, <1>3, <2>1, QuantumAssumption DEF WithinQuantum, QuantumEnds
<1>7. Phases'
  BY <1>1, <1>3, StartAssumption DEF IInv, Phases, QuantumEnds, Tick
<1>8. RunningHoldsCPU'
  BY <1>1, <1>3 DEF IInv, RunningHoldsCPU, QuantumEnds
<1>9. ContextsIntact'
  <2>1. ASSUME NEW p \in Pid, state'[p] # NONE, cpu'.owner # p
        PROVE  esp'[p] = Context(p, position'[p])
    <3>1. p # c /\ state[p] # NONE /\ cpu.owner # p
      BY <1>1, <1>2, <2>1
    <3>2. esp'[p] = esp[p] /\ position' = position
      BY <1>1, <1>2, <3>1 DEF IInv, TypeOK, QuantumEnds
    <3> QED BY <3>1, <3>2 DEF IInv, ContextsIntact
  <2> QED BY <1>1, <1>3, <2>1 DEF IInv, ContextsIntact, QuantumEnds
<1> QED BY <1>4, <1>5, <1>6, <1>7, <1>8, <1>9 DEF IInv

\* A switch preserves the invariant.
LEMMA SwitchPreserves ==
    ASSUME IInv, TickSwitches
    PROVE  IInv'
<1> DEFINE c == current_process
<1>1. QuantumEnds /\ Tick
  BY DEF TickSwitches, QuantumEnds
<1>2. /\ ring # <<>> /\ c \in Pid /\ state[c] # NONE
      /\ ticks_total' \in [Pid -> 0..(TickWrap - 1)]
      /\ cpu.owner = c /\ cpu = Context(c, position[c])
  BY <1>1, TickCharges DEF QuantumEnds
<1>3. PICK k \in 0..MAX_PROCESSES :
        LET next == ring[Candidate(k)] IN
        /\ next # c /\ state[next] # DEAD
        /\ state' = [state EXCEPT ![c] = READY, ![next] = RUNNING]
        /\ ring' = Rotate(ring, Candidate(k))
        /\ cpu' = esp[next]
  BY DEF TickSwitches
<1> DEFINE j == Candidate(k)
           next == ring[j]
<1>4. ring \in Seq(Pid) /\ Len(ring) \in Nat /\ k \in Nat
  BY SizeAssumption DEF IInv, TypeOK
<1>5. j \in 1..Len(ring)
  BY <1>2, <1>4, CandidateInList
<1>6. next \in Pid /\ state[next] # NONE /\ next \in 1..Len(ring)
  BY <1>5, RingElements DEF IInv
<1>7. ring' \in Seq(Pid) /\ Len(ring') = Len(ring) /\ ring'[1] = next
  BY <1>3, <1>4, <1>5, RotateShape
<1>8. ring' # <<>> /\ current_process' = next
  BY <1>2, <1>4, <1>7 DEF current_process
<1>9. cpu' = Context(next, position[next]) /\ cpu'.owner = next
  BY <1>2, <1>3, <1>6 DEF IInv, ContextsIntact
<1>10. \A p \in Pid : state'[p] # NONE <=> state[p] # NONE
  BY <1>2, <1>3, <1>6 DEF IInv, TypeOK
<1>11. TypeOK'
  <2>1. state' \in [Pid -> States]
    BY <1>2, <1>3, <1>6 DEF IInv, TypeOK
  <2>2. esp' \in [Pid -> Contexts] /\ cpu' \in Contexts
    BY <1>1, <1>3, <1>6 DEF IInv, TypeOK, QuantumEnds
  <2> QED BY <1>1, <1>2, <1>7, <2>1, <2>2 DEF IInv, TypeOK, QuantumEnds
<1>12. EachProcessOnce'
  <2>1. ASSUME NEW p \in Pid, state'[p] # NONE
        PROVE  \E i \in 1..Len(ring') : ring'[i] = p
    <3>1. PICK i \in 1..Len(ring) : ring[i] = p
      BY <1>10, <2>1 DEF IInv, EachProcessOnce
    <3> DEFINE to == IF i >= j THEN i - j + 1 ELSE i - j + 1 + Len(ring)
    <3>2. to \in 1..Len(ring) /\ ring'[to] = p
      BY <1>3, <1>4, <1>5, <3>1, RotateMoves
    <3> QED BY <1>7, <3>2
  <2>2. \A a, b \in 1..Len(ring) : ring[a] = ring[b] => a = b
    BY DEF IInv, EachProcessOnce
  <2>3. \A a, b \in 1..Len(ring') : ring'[a] = ring'[b] => a = b
    BY <1>3, <1>4, <1>5, <1>7, <2>2, RotateInjective
  <2> QED BY <2>1, <2>3 DEF EachProcessOnce
<1>13. PidsInUse'
  <2>1. ASSUME NEW i \in 1..Len(ring') PROVE ring'[i] <= Len(ring')
    <3> DEFINE from == IF i + j - 1 <= Len(ring) THEN i + j - 1
                                                 ELSE i + j - 1 - Len(ring)
    <3>1. from \in 1..Len(ring) /\ ring'[i] = ring[from]
      BY <1>3, <1>4, <1>5, <1>7, <2>1, RotateFrom
    <3> QED BY <1>7, <3>1 DEF IInv, PidsInUse
  <2> QED BY <1>7, <1>10, <2>1 DEF IInv, PidsInUse
<1>14. QuantaPositive'
  BY <1>1, <1>10 DEF IInv, QuantaPositive, QuantumEnds
<1>15. WithinQuantum'
  <2>1. ticks_quantum[next] >= QuantumUnit /\ ticks_quantum[next] \in Nat
    BY <1>6 DEF IInv, TypeOK, QuantaPositive
  <2> QED BY <1>1, <1>8, <2>1, QuantumAssumption DEF WithinQuantum, QuantumEnds
<1>16. Phases'
  BY <1>1, <1>6, <1>8, <1>9 DEF Phases, QuantumEnds, Tick
<1>17. RunningHoldsCPU'
  <2>1. \A p \in Pid : state[p] = RUNNING => p = c
    BY DEF IInv, RunningHoldsCPU
  <2>2. \A p \in Pid : state'[p] = RUNNING => p = next
    BY <1>2, <1>3, <1>6, <2>1 DEF IInv, TypeOK
  <2> QED BY <1>1, <1>8, <1>9, <2>2 DEF RunningHoldsCPU, QuantumEnds, Tick
<1>18. ContextsIntact'
  <2>1. position' = position /\ esp' = [esp EXCEPT ![c] = cpu]
    BY <1>1 DEF QuantumEnds
  <2>2. ASSUME NEW p \in Pid, state'[p] # NONE, cpu'.owner # p
        PROVE  esp'[p] = Context(p, position'[p])
    <3>1. CASE p = c
      BY <1>2, <2>1, <3>1 DEF IInv, TypeOK
    <3>2. CASE p # c
      <4>1. state[p] # NONE /\ cpu.owner # p
        BY <1>2, <1>10, <2>2, <3>2
      <4>2. esp'[p] = esp[p]
        BY <2>1, <3>2 DEF IInv, TypeOK
      <4> QED BY <2>1, <4>1, <4>2 DEF IInv, ContextsIntact
    <3> QED BY <3>1, <3>2
  <2> QED BY <1>8, <1>9, <2>1, <2>2 DEF ContextsIntact
<1> QED BY <1>11, <1>12, <1>13, <1>14, <1>15, <1>16, <1>17, <1>18 DEF IInv

\* Every step of the specification preserves the invariant.
LEMMA NextPreserves == IInv /\ [Next]_vars => IInv'
<1> SUFFICES ASSUME IInv, [Next]_vars PROVE IInv'
  OBVIOUS
<1>1. CASE \E priority \in Priorities : process_create(priority)
  BY <1>1, CreatePreserves
<1>2. CASE process_exit
  BY <1>2, ExitPreserves
<1>3. CASE \E p \in Pid : process_block(p) \/ process_unblock(p)
  <2>1. PICK p \in Pid : process_block(p) \/ process_unblock(p)
    BY <1>3
  <2>2. CASE process_block(p)
    BY <2>2, StateChangePreserves DEF process_block
  <2>3. CASE process_unblock(p)
    BY <2>3, StateChangePreserves DEF process_unblock
  <2> QED BY <2>1, <2>2, <2>3
<1>4. CASE Advance
  BY <1>4, AdvancePreserves
<1>5. CASE scheduler_start
  BY <1>5, StartPreserves
<1>6. CASE LoadFirst
  BY <1>6, LoadFirstPreserves
<1>7. CASE scheduler_tick
  BY <1>7, InQuantumPreserves, KeepsPreserves, SwitchPreserves DEF scheduler_tick
<1>8. CASE UNCHANGED vars
  BY <1>8 DEF vars, IInv, TypeOK, EachProcessOnce, PidsInUse, QuantaPositive,
              WithinQuantum, Phases, RunningHoldsCPU, ContextsIntact,
              current_process
<1> QED BY <1>1, <1>2, <1>3, <1>4, <1>5, <1>6, <1>7, <1>8 DEF Next

\* The inductive invariant holds in every reachable state.
THEOREM Invariance == Spec => []IInv
BY InitIInv, NextPreserves, PTL DEF Spec

\* Every variable of the process table and the scheduler keeps its type.
THEOREM TypeCorrect == Spec => []TypeOK
BY Invariance, PTL DEF IInv

\* However processes are created, blocked, killed and switched, the circular
\* list holds every process exactly once.
THEOREM ListComplete == Spec => []EachProcessOnce
BY Invariance, PTL DEF IInv

\* At most one PCB says RUNNING, and that process has the processor.
THEOREM RunningCorrect == Spec => []RunningHoldsCPU
BY Invariance, PTL DEF IInv

\* The saved context of every process is its own and its latest, and the
\* processor executes the current process where it was interrupted.
THEOREM ContextsCorrect == Spec => []ContextsIntact
BY Invariance, PTL DEF IInv

\* tick_count never reaches the quantum of the current process.
THEOREM QuantumCorrect == Spec => []WithinQuantum
BY Invariance, PTL DEF IInv

-----------------------------------------------------------------------------
(* Action properties.                                                      *)

\* A step that is not a switch leaves the list as it is or adds to its end.
LEMMA OthersAppend ==
    ASSUME IInv, [Next]_vars, ~TickSwitches
    PROVE  ring' = ring \/ ring' = Append(ring, next_pid)
BY DEF Next, vars, process_create, process_exit, process_block,
       process_unblock, Advance, scheduler_start, LoadFirst, scheduler_tick,
       TickInQuantum, TickKeeps

\* Only a switch changes the current process once there is one.
LEMMA OnlySwitchesMove ==
    ASSUME IInv, [Next]_vars, ring # <<>>,
           current_process' # current_process \/ ring'[1] # ring[1]
    PROVE  TickSwitches
<1>1. Len(ring) \in Nat \ {0} /\ ring \in Seq(Pid)
  BY DEF IInv, TypeOK
<1>2. ASSUME NEW n \in Priorities, process_create(n) PROVE FALSE
  <2>1. ring' = Append(ring, Len(ring) + 1)
    BY <1>2 DEF process_create, next_pid
  <2>2. ring'[1] = ring[1] /\ ring' # <<>>
    BY <1>1, <2>1
  <2> QED BY <2>2 DEF current_process
<1>3. ring' = ring => FALSE
  BY DEF current_process
<1> QED BY <1>2, <1>3
        DEF Next, vars, process_exit, process_block, process_unblock, Advance,
            scheduler_start, LoadFirst, scheduler_tick, TickInQuantum, TickKeeps

\* Each READY process keeps its place or moves closer to the processor, strictly
\* so at every switch, whatever the size of the list and of MAX_PROCESSES.
THEOREM NoProcessOvertaken == Spec => NeverOvertaken
<1>1. ASSUME IInv, [Next]_vars PROVE NoOvertaking
  <2> SUFFICES ASSUME NEW i \in 2..Len(ring),
                      state[ring[i]] = READY
               PROVE  \E m \in 1..i : /\ ring'[m] = ring[i]
                                      /\ ring'[1] # ring[1] => m < i
    BY DEF NoOvertaking
  <2>1. ring \in Seq(Pid) /\ Len(ring) \in Nat /\ i \in Nat /\ ring # <<>>
    BY <1>1 DEF IInv, TypeOK
  <2>0. CASE ~TickSwitches
    <3>1. ring' = ring \/ ring' = Append(ring, next_pid)
      BY <1>1, <2>0, OthersAppend
    <3>2. ring'[i] = ring[i] /\ ring'[1] = ring[1]
      BY <2>1, <3>1
    <3> QED BY <2>1, <3>2
  <2> SUFFICES ASSUME TickSwitches
               PROVE  \E m \in 1..(i - 1) : ring'[m] = ring[i]
    BY <2>1, <2>0
  <2>2. PICK k \in 0..MAX_PROCESSES :
          SearchEnds(k) /\ ring' = Rotate(ring, Candidate(k))
    BY DEF TickSwitches
  <2>3. k \in Nat
    BY <2>2, SizeAssumption
  <2>4. Candidate(i - 2) = i
    <3>1. i - 2 \in Nat /\ (i - 2) + 1 < Len(ring)
      BY <2>1
    <3>2. Candidate(i - 2) = (i - 2) + 2
      BY <2>1, <3>1, CandidateFirstRound
    <3> QED BY <2>1, <3>2
  <2>5. ~(i - 2 \in 0..(k - 1))
    BY <2>2, <2>4 DEF SearchEnds, Skipped
  <2>6. k + 1 < Len(ring) /\ k + 2 <= i
    BY <2>1, <2>3, <2>5
  <2>7. Candidate(k) = k + 2
    BY <2>1, <2>3, <2>6, CandidateFirstRound
  <2>8. Candidate(k) \in 1..Len(ring) /\ i \in 1..Len(ring)
    BY <2>1, <2>3, <2>6, <2>7
  <2>9. ring'[i - (k + 2) + 1] = ring[i]
    BY <2>1, <2>2, <2>6, <2>7, <2>8, RotateMoves
  <2> QED BY <2>1, <2>3, <2>6, <2>9
<1>2. IInv /\ [Next]_vars => [NoOvertaking]_vars
  BY <1>1
<1> QED BY <1>2, Invariance, PTL DEF Spec, NeverOvertaken

\* A step gives the processor to a process that is not READY only when no
\* process can run.  The list may hold one process more than MAX_PROCESSES.
LEMMA OnlyReadyStep ==
    ASSUME MaxPid <= MAX_PROCESSES + 1, IInv, [Next]_vars
    PROVE  SkipsUnlessIdle
<1> SUFFICES ASSUME current_process' # current_process,
                    current_process # NULL,
                    state[current_process'] # READY,
                    NEW p \in Pid, state[p] # NONE
             PROVE  Skipped(p)
  BY DEF SkipsUnlessIdle, Skipped
<1>1. /\ ring \in Seq(Pid) /\ ring # <<>>
      /\ Len(ring) \in Nat \ {0} /\ Len(ring) <= MaxPid
  BY DEF IInv, TypeOK, current_process
<1>2. TickSwitches
  BY <1>1, OnlySwitchesMove
<1>3. PICK k \in 0..MAX_PROCESSES :
        /\ SearchEnds(k)
        /\ ring[Candidate(k)] # current_process
        /\ state[ring[Candidate(k)]] # DEAD
        /\ ring' = Rotate(ring, Candidate(k))
  BY <1>2 DEF TickSwitches
<1> DEFINE next == ring[Candidate(k)]
<1>4. k \in Nat /\ MAX_PROCESSES \in Nat /\ MaxPid \in Nat
  BY SizeAssumption
<1>5. Candidate(k) \in 1..Len(ring)
  BY <1>1, <1>4, CandidateInList
<1>6. current_process' = next
  <2>1. Len(ring') = Len(ring) /\ ring'[1] = next
    BY <1>1, <1>3, <1>5, RotateShape
  <2>2. ring' # <<>>
    BY <1>1, <2>1
  <2> QED BY <2>1, <2>2 DEF current_process
<1>7. next \in Pid /\ state[next] # NONE
  BY <1>5, RingElements DEF IInv
<1>8. state[next] # RUNNING
  BY <1>3, <1>7 DEF IInv, RunningHoldsCPU
<1>9. Skipped(next)
  BY <1>6, <1>7, <1>8 DEF IInv, TypeOK, Skipped
<1>10. k = MAX_PROCESSES
  BY <1>3, <1>9 DEF SearchEnds
<1>11. \A m \in 0..MAX_PROCESSES : Skipped(ring[Candidate(m)])
  BY <1>3, <1>4, <1>9, <1>10 DEF SearchEnds
<1>12. PICK i \in 1..Len(ring) : ring[i] = p
  BY DEF IInv, EachProcessOnce
<1>13. \E m \in 0..MAX_PROCESSES : Candidate(m) = i
  <2>1. CASE i = 1
    <3>1. Len(ring) - 1 \in 0..MAX_PROCESSES
      BY <1>1, <1>4
    <3> QED BY <1>1, <2>1, <3>1, CandidateComesRound
  <2>2. CASE i # 1
    <3>1. i - 2 \in 0..MAX_PROCESSES /\ i - 2 \in Nat /\ (i - 2) + 1 < Len(ring)
      BY <1>1, <1>4, <2>2
    <3>2. Candidate(i - 2) = (i - 2) + 2
      BY <1>1, <3>1, CandidateFirstRound
    <3> QED BY <3>1, <3>2
  <2> QED BY <2>1, <2>2
<1> QED BY <1>11, <1>12, <1>13

\* A process that is not READY gets the processor only when no process can
\* run.
THEOREM OnlyReadyGetCPU ==
    ASSUME MaxPid <= MAX_PROCESSES + 1
    PROVE  Spec => OnlyReadyDispatched
<1>1. IInv /\ [Next]_vars => [SkipsUnlessIdle]_vars
  BY OnlyReadyStep
<1> QED BY <1>1, Invariance, PTL DEF Spec, OnlyReadyDispatched

-----------------------------------------------------------------------------
(* The elements of a list that belong to a set.                            *)

\* Induction over the length of a sequence.  The property is given by the set
\* of the sequences that have it.
LEMMA AppendInduction ==
    ASSUME NEW S, NEW W, <<>> \in W,
           \A t \in Seq(S), e \in S : t \in W => Append(t, e) \in W
    PROVE  Seq(S) \subseteq W
<1> SUFFICES ASSUME NEW s \in Seq(S) PROVE s \in W
  OBVIOUS
<1>1. PICK N \in Nat : N = Len(s)
  OBVIOUS
<1> DEFINE V == {n \in 0..N : SubSeq(s, 1, n) \in W}
<1>2. 0 \in V
  <2>1. SubSeq(s, 1, 0) = <<>>
    BY SubSeqEmpty
  <2>2. SubSeq(s, 1, 0) \in W
    BY <2>1, Zenon
  <2> QED BY <1>1, <2>2
<1>3. ASSUME NEW n \in 0..(N - 1), n \in V PROVE n + 1 \in V
  <2>1. /\ n + 1 \in 1..Len(s) /\ 1 \in 1..Len(s) /\ n + 1 \in 0..N
        /\ n \in 0..Len(s) /\ (n + 1) - 1 = n
    BY <1>1
  <2>2. SubSeq(s, 1, n) \in Seq(S) /\ s[n + 1] \in S
    BY <1>1, <2>1
  <2>3. SubSeq(s, 1, n + 1) = SubSeq(s, 1, n) \o <<s[n + 1]>>
    BY <2>1, SubSeqRecursiveSecond
  <2>4. SubSeq(s, 1, n + 1) = Append(SubSeq(s, 1, n), s[n + 1])
    BY <2>2, <2>3, AppendIsConcat
  <2>5. SubSeq(s, 1, n) \in W
    BY <1>3, Zenon
  <2>6. Append(SubSeq(s, 1, n), s[n + 1]) \in W
    <3> HIDE DEF V
    <3> QED BY <2>2, <2>5, Zenon
  <2>7. SubSeq(s, 1, n + 1) \in W
    <3> HIDE DEF V
    <3> QED BY <2>4, <2>6, Zenon
  <2> QED BY <2>1, <2>7, Zenon
<1>4. N \in V
  <2> HIDE DEF V
  <2>1. \A n \in 0..N : n \in V
    BY <1>1, <1>2, <1>3, IntervalInduction
  <2> QED BY <1>1, <2>1
<1>5. SubSeq(s, 1, N) = s
  BY <1>1, SubSeqFull
<1>6. SubSeq(s, 1, N) \in W
  BY <1>4, Zenon
<1> QED BY <1>5, <1>6, Zenon

\* The chosen among the first n elements.
Upto(s, R, f) ==
    f = [n \in 0..Len(s) |->
            IF n = 0 THEN <<>>
            ELSE IF s[n] \in R THEN Append(f[n - 1], s[n]) ELSE f[n - 1]]

LEMMA UptoExists ==
    ASSUME NEW S, NEW s \in Seq(S), NEW R
    PROVE  \E f : Upto(s, R, f)
<1>1. PICK N \in Nat : N = Len(s)
  OBVIOUS
<1> DEFINE First(m, f) ==
              f = [n \in 0..m |->
                     IF n = 0 THEN <<>>
                     ELSE IF s[n] \in R THEN Append(f[n - 1], s[n]) ELSE f[n - 1]]
           V == {m \in 0..N : \E f : First(m, f)}
<1>2. 0 \in V
  <2> DEFINE f == [n \in 0..0 |-> <<>>]
  <2>1. 0 \in 0..N /\ First(0, f)
    BY <1>1
  <2> QED BY <2>1
<1>3. ASSUME NEW m \in 0..(N - 1), m \in V PROVE m + 1 \in V
  <2>1. PICK f : First(m, f)
    BY <1>3
  <2>2. m + 1 \in 0..N
    BY <1>1
  <2> DEFINE g == [n \in 0..(m + 1) |->
                      IF n <= m THEN f[n]
                      ELSE IF s[m + 1] \in R THEN Append(f[m], s[m + 1]) ELSE f[m]]
  <2>3. \A n \in 0..m : g[n] = f[n]
    BY <1>1
  <2>4. ASSUME NEW n \in 0..(m + 1)
        PROVE  g[n] = IF n = 0 THEN <<>>
                      ELSE IF s[n] \in R THEN Append(g[n - 1], s[n]) ELSE g[n - 1]
    <3>1. CASE n \in 0..m
      <4>1. n - 1 \in 0..m \/ n = 0
        BY <3>1
      <4>2. f[n] = IF n = 0 THEN <<>>
                   ELSE IF s[n] \in R THEN Append(f[n - 1], s[n]) ELSE f[n - 1]
        BY <2>1, <3>1, Zenon
      <4> QED BY <2>3, <3>1, <4>1, <4>2
    <3>2. CASE n = m + 1
      <4>1. n # 0 /\ n - 1 = m /\ m \in 0..m /\ ~(n <= m)
        BY <1>1, <3>2
      <4>2. g[m] = f[m]
        BY <2>3, <4>1
      <4>3. g[n] = IF s[m + 1] \in R THEN Append(f[m], s[m + 1]) ELSE f[m]
        BY <3>2, <4>1
      <4> QED BY <3>2, <4>1, <4>2, <4>3
    <3> QED BY <1>1, <3>1, <3>2
  <2>5. First(m + 1, g)
    BY <1>1, <2>4
  <2> QED BY <2>2, <2>5
<1>4. N \in V
  <2> HIDE DEF V
  <2>1. \A n \in 0..N : n \in V
    BY <1>1, <1>2, <1>3, IntervalInduction
  <2> QED BY <1>1, <2>1
<1> QED BY <1>1, <1>4 DEF Upto

LEMMA ChosenIsUpto ==
    ASSUME NEW S, NEW s \in Seq(S), NEW R
    PROVE  \E f : Upto(s, R, f) /\ Chosen(s, R) = f[Len(s)]
<1>1. PICK f : Upto(s, R, f)
  BY UptoExists
<1>2. Upto(s, R, CHOOSE g : Upto(s, R, g))
  <2> HIDE DEF Upto
  <2> QED BY <1>1, Zenon
<1>3. Chosen(s, R) = (CHOOSE g : Upto(s, R, g))[Len(s)]
  BY DEF Chosen, Upto
<1> QED BY <1>2, <1>3

\* The choice from nothing, and from one element more.
LEMMA ChosenEmpty ==
    ASSUME NEW R
    PROVE  Chosen(<<>>, R) = <<>>
<1>1. <<>> \in Seq({}) /\ Len(<<>>) = 0
  BY EmptySeq
<1>2. PICK f : Upto(<<>>, R, f) /\ Chosen(<<>>, R) = f[0]
  BY <1>1, ChosenIsUpto
<1>3. 0 \in 0..Len(<<>>)
  BY <1>1
<1> QED BY <1>2, <1>3, Zenon DEF Upto

LEMMA ChosenAppend ==
    ASSUME NEW S, NEW s \in Seq(S), NEW e \in S, NEW R
    PROVE  Chosen(Append(s, e), R) =
             IF e \in R THEN Append(Chosen(s, R), e) ELSE Chosen(s, R)
<1>1. PICK N \in Nat : N = Len(s)
  OBVIOUS
<1>2. PICK more \in Seq(S) : more = Append(s, e)
  <2>1. Append(s, e) \in Seq(S)
    OBVIOUS
  <2> QED BY <2>1
<1>3. /\ Len(more) = N + 1 /\ more[N + 1] = e
      /\ \A n \in 1..N : more[n] = s[n]
  BY <1>1, <1>2
<1>4. PICK f : Upto(s, R, f) /\ Chosen(s, R) = f[N]
  BY <1>1, ChosenIsUpto
<1>5. PICK g : Upto(more, R, g) /\ Chosen(more, R) = g[N + 1]
  BY <1>3, ChosenIsUpto
<1> DEFINE V == {n \in 0..N : g[n] = f[n]}
<1>6. 0 \in V
  <2>1. 0 \in 0..N /\ 0 \in 0..Len(s) /\ 0 \in 0..Len(more)
    BY <1>1, <1>3
  <2>2. f[0] = <<>>
    BY <1>4, <2>1, Zenon DEF Upto
  <2>3. g[0] = <<>>
    BY <1>5, <2>1, Zenon DEF Upto
  <2> QED BY <2>1, <2>2, <2>3
<1>7. ASSUME NEW n \in 0..(N - 1), n \in V PROVE n + 1 \in V
  <2>1. f[n + 1] = IF s[n + 1] \in R THEN Append(f[n], s[n + 1]) ELSE f[n]
    <3>1. n + 1 \in 0..Len(s) /\ n + 1 # 0 /\ (n + 1) - 1 = n
      BY <1>1
    <3> QED BY <1>4, <3>1, Zenon DEF Upto
  <2>2. g[n + 1] = IF more[n + 1] \in R THEN Append(g[n], more[n + 1]) ELSE g[n]
    <3>1. n + 1 \in 0..Len(more) /\ n + 1 # 0 /\ (n + 1) - 1 = n
      BY <1>1, <1>3
    <3> QED BY <1>5, <3>1, Zenon DEF Upto
  <2>3. more[n + 1] = s[n + 1] /\ n + 1 \in 0..N
    BY <1>1, <1>3
  <2> QED BY <1>7, <2>1, <2>2, <2>3
<1>8. g[N] = f[N]
  <2> HIDE DEF V
  <2>1. N \in V
    <3>1. \A n \in 0..N : n \in V
      BY <1>1, <1>6, <1>7, IntervalInduction
    <3> QED BY <1>1, <3>1
  <2> QED BY <2>1 DEF V
<1>9. g[N + 1] = IF e \in R THEN Append(g[N], e) ELSE g[N]
  <2>1. N + 1 \in 0..Len(more) /\ N + 1 # 0 /\ (N + 1) - 1 = N
    BY <1>1, <1>3
  <2>2. g[N + 1] = IF more[N + 1] \in R THEN Append(g[N], more[N + 1]) ELSE g[N]
    BY <1>5, <2>1, Zenon DEF Upto
  <2> QED BY <1>3, <2>2
<1> QED BY <1>2, <1>4, <1>5, <1>8, <1>9

LEMMA ChosenOne ==
    ASSUME NEW S, NEW e \in S, NEW R
    PROVE  Chosen(<<e>>, R) = IF e \in R THEN <<e>> ELSE <<>>
<1>1. <<>> \in Seq(S) /\ Append(<<>>, e) = <<e>>
  OBVIOUS
<1>2. Chosen(<<>>, R) = <<>>
  BY ChosenEmpty, Zenon
<1>3. Chosen(Append(<<>>, e), R) =
        IF e \in R THEN Append(Chosen(<<>>, R), e) ELSE Chosen(<<>>, R)
  BY <1>1, ChosenAppend, Zenon
<1> QED BY <1>1, <1>2, <1>3, Zenon

\* The chosen are elements of the list.
LEMMA ChosenType ==
    ASSUME NEW S, NEW s \in Seq(S), NEW R
    PROVE  Chosen(s, R) \in Seq(S)
<1> DEFINE W == {t \in Seq(S) : Chosen(t, R) \in Seq(S)}
<1>1. <<>> \in W
  <2>1. Chosen(<<>>, R) = <<>> /\ <<>> \in Seq(S)
    BY ChosenEmpty, EmptySeq, Zenon
  <2> QED BY <2>1, Zenon
<1>2. ASSUME NEW t \in Seq(S), NEW e \in S, t \in W PROVE Append(t, e) \in W
  <2>1. Append(t, e) \in Seq(S) /\ Append(Chosen(t, R), e) \in Seq(S)
    BY <1>2
  <2> QED BY <1>2, <2>1, ChosenAppend
<1>3. Seq(S) \subseteq W
  <2> HIDE DEF W
  <2> QED BY <1>1, <1>2, AppendInduction
<1> QED BY <1>3

\* What is chosen is in the set, and the rest of the set does not matter.
LEMMA ChosenElements ==
    ASSUME NEW S, NEW s \in Seq(S), NEW R, NEW i \in 1..Len(Chosen(s, R))
    PROVE  Chosen(s, R)[i] \in R
<1> DEFINE W == {t \in Seq(S) : \A n \in 1..Len(Chosen(t, R)) : Chosen(t, R)[n] \in R}
<1>1. <<>> \in W
  BY ChosenEmpty
<1>2. ASSUME NEW t \in Seq(S), NEW e \in S, t \in W PROVE Append(t, e) \in W
  <2>1. Append(t, e) \in Seq(S)
    OBVIOUS
  <2>2. CASE e \notin R
    <3>1. Chosen(Append(t, e), R) = Chosen(t, R)
      BY <2>2, ChosenAppend
    <3> QED BY <1>2, <2>1, <3>1
  <2>3. CASE e \in R
    <3>1. PICK c \in Seq(S) : c = Chosen(t, R)
      BY ChosenType
    <3>2. Chosen(Append(t, e), R) = Append(c, e)
      BY <2>3, <3>1, ChosenAppend
    <3>3. \A n \in 1..Len(c) : c[n] \in R
      BY <1>2, <3>1
    <3>4. \A n \in 1..Len(Append(c, e)) : Append(c, e)[n] \in R
      BY <2>3, <3>1, <3>3
    <3> QED BY <2>1, <3>2, <3>4
  <2> QED BY <2>2, <2>3
<1>3. Seq(S) \subseteq W
  <2> HIDE DEF W
  <2> QED BY <1>1, <1>2, AppendInduction
<1>4. s \in W
  BY <1>3, Zenon
<1> QED BY <1>4

LEMMA ChosenSame ==
    ASSUME NEW S, NEW s \in Seq(S), NEW R, NEW Q,
           \A i \in 1..Len(s) : s[i] \in R <=> s[i] \in Q
    PROVE  Chosen(s, R) = Chosen(s, Q)
<1> DEFINE Same(t) == \A i \in 1..Len(t) : t[i] \in R <=> t[i] \in Q
           W == {t \in Seq(S) : Same(t) => Chosen(t, R) = Chosen(t, Q)}
<1>1. <<>> \in W
  BY ChosenEmpty
<1>2. ASSUME NEW t \in Seq(S), NEW e \in S, t \in W PROVE Append(t, e) \in W
  <2>1. Append(t, e) \in Seq(S)
    OBVIOUS
  <2>2. ASSUME Same(Append(t, e)) PROVE Same(t) /\ (e \in R <=> e \in Q)
    <3>1. \A i \in 1..Len(t) : i \in 1..Len(Append(t, e)) /\ Append(t, e)[i] = t[i]
      OBVIOUS
    <3>2. Len(t) + 1 \in 1..Len(Append(t, e)) /\ Append(t, e)[Len(t) + 1] = e
      OBVIOUS
    <3> QED BY <2>2, <3>1, <3>2
  <2> HIDE DEF Same
  <2>3. ASSUME Same(Append(t, e))
        PROVE  Chosen(Append(t, e), R) = Chosen(Append(t, e), Q)
    <3>1. Chosen(t, R) = Chosen(t, Q)
      BY <1>2, <2>2, <2>3
    <3>2. /\ Chosen(Append(t, e), R) =
                IF e \in R THEN Append(Chosen(t, R), e) ELSE Chosen(t, R)
          /\ Chosen(Append(t, e), Q) =
                IF e \in Q THEN Append(Chosen(t, Q), e) ELSE Chosen(t, Q)
      BY ChosenAppend, Zenon
    <3> QED BY <2>2, <2>3, <3>1, <3>2, Zenon
  <2> QED BY <2>1, <2>3
<1>3. Seq(S) \subseteq W
  <2> HIDE DEF W
  <2> QED BY <1>1, <1>2, AppendInduction
<1>4. s \in W
  BY <1>3, Zenon
<1> QED BY <1>4

LEMMA ChosenNone ==
    ASSUME NEW S, NEW s \in Seq(S), NEW R, \A i \in 1..Len(s) : s[i] \notin R
    PROVE  Chosen(s, R) = <<>>
<1>1. Chosen(s, {}) \in Seq(S)
  BY ChosenType
<1>2. \A i \in 1..Len(Chosen(s, {})) : FALSE
  BY ChosenElements
<1>3. Len(Chosen(s, {})) = 0
  BY <1>1, <1>2
<1>4. Chosen(s, R) = Chosen(s, {})
  BY ChosenSame
<1> QED BY <1>1, <1>3, <1>4

\* Choosing from two lists one after the other.
LEMMA ChosenConcat ==
    ASSUME NEW S, NEW R
    PROVE  \A s, u \in Seq(S) : Chosen(s \o u, R) = Chosen(s, R) \o Chosen(u, R)
<1> TAKE s, u \in Seq(S)
<1> DEFINE W == {t \in Seq(S) : Chosen(s \o t, R) = Chosen(s, R) \o Chosen(t, R)}
<1>1. <<>> \in W
  <2>1. s \o <<>> = s /\ Chosen(s, R) \o <<>> = Chosen(s, R)
    BY ChosenType, ConcatEmptySeq
  <2>2. Chosen(<<>>, R) = <<>> /\ <<>> \in Seq(S)
    BY ChosenEmpty, EmptySeq, Zenon
  <2> QED BY <2>1, <2>2, Zenon
<1>2. ASSUME NEW t \in Seq(S), NEW e \in S, t \in W PROVE Append(t, e) \in W
  <2>1. PICK st \in Seq(S) : st = s \o t
    BY ConcatProperties
  <2>2. s \o Append(t, e) = Append(st, e) /\ Append(t, e) \in Seq(S)
    BY <2>1
  <2>3. PICK a \in Seq(S), b \in Seq(S) : a = Chosen(s, R) /\ b = Chosen(t, R)
    BY ChosenType
  <2>4. Chosen(st, R) = a \o b
    BY <1>2, <2>1, <2>3
  <2>5. CASE e \notin R
    <3>1. Chosen(Append(st, e), R) = a \o b /\ Chosen(Append(t, e), R) = b
      <4>1. /\ Chosen(Append(st, e), R) =
                  IF e \in R THEN Append(Chosen(st, R), e) ELSE Chosen(st, R)
            /\ Chosen(Append(t, e), R) =
                  IF e \in R THEN Append(Chosen(t, R), e) ELSE Chosen(t, R)
        BY ChosenAppend, Zenon
      <4> QED BY <2>3, <2>4, <2>5, <4>1, Zenon
    <3> QED BY <2>2, <2>3, <3>1
  <2>6. CASE e \in R
    <3>1. /\ Chosen(Append(st, e), R) = Append(a \o b, e)
          /\ Chosen(Append(t, e), R) = Append(b, e)
      <4>1. /\ Chosen(Append(st, e), R) =
                  IF e \in R THEN Append(Chosen(st, R), e) ELSE Chosen(st, R)
            /\ Chosen(Append(t, e), R) =
                  IF e \in R THEN Append(Chosen(t, R), e) ELSE Chosen(t, R)
        BY ChosenAppend, Zenon
      <4> QED BY <2>3, <2>4, <2>6, <4>1, Zenon
    <3>2. Append(a \o b, e) = a \o Append(b, e)
      <4>1. a \in Seq(S) /\ b \in Seq(S) /\ e \in S
        OBVIOUS
      <4>2. PICK ab \in Seq(S) : ab = a \o b
        BY <4>1, ConcatProperties
      <4>3. a \o Append(b, e) = Append(ab, e)
        BY <4>2
      <4> QED BY <4>2, <4>3
    <3> QED BY <2>2, <2>3, <3>1, <3>2
  <2> QED BY <2>5, <2>6
<1>3. Seq(S) \subseteq W
  <2> HIDE DEF W
  <2> QED BY <1>1, <1>2, AppendInduction
<1>4. u \in W
  BY <1>3, Zenon
<1> QED BY <1>4

\* The lists before and after the i-th element of a list.
Around(s, i, a, b) ==
    /\ Len(a) = i - 1 /\ Len(b) = Len(s) - i
    /\ \A n \in 1..(i - 1) : a[n] = s[n]
    /\ \A n \in 1..(Len(s) - i) : b[n] = s[i + n]
    /\ s = (a \o <<s[i]>>) \o b

LEMMA SplitAround ==
    ASSUME NEW S
    PROVE  \A s \in Seq(S) : \A i \in 1..Len(s) :
             \E a, b \in Seq(S) : Around(s, i, a, b)
<1> TAKE s \in Seq(S)
<1> TAKE i \in 1..Len(s)
<1>1. PICK N \in Nat : N = Len(s)
  OBVIOUS
<1>2. PICK a : a = [n \in 1..(i - 1) |-> s[n]]
  OBVIOUS
<1>3. PICK b : b = [n \in 1..(N - i) |-> s[i + n]]
  OBVIOUS
<1>4. /\ a \in Seq(S) /\ Len(a) = i - 1
      /\ \A n \in 1..(i - 1) : a[n] = s[n]
  BY <1>1, <1>2
<1>5. /\ b \in Seq(S) /\ Len(b) = N - i
      /\ \A n \in 1..(N - i) : b[n] = s[i + n]
  BY <1>1, <1>3
<1>6. PICK t \in Seq(S) :
        /\ t = a \o <<s[i]>> /\ Len(t) = i
        /\ \A n \in 1..i : t[n] = s[n]
  <2>1. s[i] \in S
    BY <1>1
  <2>2. /\ a \o <<s[i]>> \in Seq(S) /\ Len(a \o <<s[i]>>) = i
        /\ \A n \in 1..i : (a \o <<s[i]>>)[n] = s[n]
    BY <1>1, <1>4, <2>1
  <2> QED BY <2>2
<1>7. t \o b \in Seq(S) /\ Len(t \o b) = N
  <2>1. Len(t) + Len(b) = N
    <3>1. Len(t) = i /\ Len(b) = N - i
      BY <1>5, <1>6
    <3> QED BY <1>1, <3>1
  <2>2. t \o b \in Seq(S) /\ Len(t \o b) = Len(t) + Len(b)
    BY <1>5, <1>6, ConcatProperties
  <2> QED BY <2>1, <2>2
<1>8. ASSUME NEW n \in 1..N PROVE (t \o b)[n] = s[n]
  <2>1. CASE n \in 1..i
    BY <1>1, <1>5, <1>6, <2>1
  <2>2. CASE n \in (i + 1)..N
    <3>1. n - i \in 1..(N - i) /\ i + (n - i) = n
      BY <1>1, <2>2
    <3>2. b[n - i] = s[n]
      BY <1>5, <3>1
    <3>3. (t \o b)[n] = b[n - i]
      BY <1>1, <1>5, <1>6, <2>2, <3>1
    <3> QED BY <3>2, <3>3
  <2>3. n \in 1..i \/ n \in (i + 1)..N
    BY <1>1
  <2> QED BY <2>1, <2>2, <2>3
<1>9. t \o b = s
  BY <1>1, <1>7, <1>8, SeqEqual
<1>10. Around(s, i, a, b)
  BY <1>1, <1>4, <1>5, <1>6, <1>9 DEF Around
<1> QED BY <1>4, <1>5, <1>10

Misses(s, p) == \A n \in 1..Len(s) : s[n] # p
Distinct(s) == \A m, n \in 1..Len(s) : s[m] = s[n] => m = n

\* Choosing from a list in three parts, with and without the middle one.
InParts(R, p, before, one, after) ==
    /\ Chosen((before \o one) \o after, R \cup {p}) =
         (Chosen(before, R) \o one) \o Chosen(after, R)
    /\ Chosen((before \o one) \o after, R \ {p}) =
         Chosen(before, R) \o Chosen(after, R)

LEMMA ChosenInParts ==
    ASSUME NEW S, NEW p \in S, NEW R
    PROVE  \A before, one, after \in Seq(S) :
             (one = <<p>> /\ Misses(before, p) /\ Misses(after, p)) =>
               InParts(R, p, before, one, after)
<1>1. \A Q : \A x, y \in Seq(S) : Chosen(x \o y, Q) = Chosen(x, Q) \o Chosen(y, Q)
  BY ChosenConcat, Zenon
<1> TAKE before, one, after \in Seq(S)
<1> HAVE one = <<p>> /\ Misses(before, p) /\ Misses(after, p)
<1>2. PICK t \in Seq(S) : t = before \o one
  BY ConcatProperties
<1>3. ASSUME NEW Q
      PROVE  Chosen(t \o after, Q) =
               (Chosen(before, Q) \o Chosen(one, Q)) \o Chosen(after, Q)
  <2>1. Chosen(before \o one, Q) = Chosen(before, Q) \o Chosen(one, Q)
    BY <1>1, Zenon
  <2>2. Chosen(t \o after, Q) = Chosen(t, Q) \o Chosen(after, Q)
    BY <1>1, Zenon
  <2> QED BY <1>2, <2>1, <2>2, Zenon
<1>4. ASSUME NEW Q, Q = R \cup {p} \/ Q = R \ {p}
      PROVE  Chosen(before, Q) = Chosen(before, R) /\ Chosen(after, Q) = Chosen(after, R)
  <2>1. \A n \in 1..Len(before) : before[n] \in Q <=> before[n] \in R
    BY <1>4 DEF Misses
  <2>2. \A n \in 1..Len(after) : after[n] \in Q <=> after[n] \in R
    BY <1>4 DEF Misses
  <2>3. Chosen(before, Q) = Chosen(before, R)
    BY <2>1, ChosenSame
  <2>4. Chosen(after, Q) = Chosen(after, R)
    BY <2>2, ChosenSame
  <2> QED BY <2>3, <2>4
<1>5. Chosen(t \o after, R \cup {p}) = (Chosen(before, R) \o one) \o Chosen(after, R)
  <2>1. Chosen(<<p>>, R \cup {p}) = <<p>>
    BY ChosenOne
  <2> QED BY <1>3, <1>4, <2>1, Zenon
<1>6. Chosen(t \o after, R \ {p}) = Chosen(before, R) \o Chosen(after, R)
  <2>1. Chosen(<<p>>, R \ {p}) = <<>>
    BY ChosenOne
  <2>2. Chosen(before, R) \o <<>> = Chosen(before, R)
    BY ChosenType, ConcatEmptySeq
  <2> QED BY <1>3, <1>4, <2>1, <2>2, Zenon
<1> QED BY <1>2, <1>5, <1>6, Zenon DEF InParts

\* Choosing with one element and without it: the others keep their order.
WithAndWithout(s, R, p, a, b) ==
    /\ Chosen(s, R \cup {p}) = (a \o <<p>>) \o b
    /\ Chosen(s, R \ {p}) = a \o b

LEMMA ChosenAround ==
    ASSUME NEW S, NEW s \in Seq(S), NEW i \in 1..Len(s), NEW R, Distinct(s)
    PROVE  \E a, b \in Seq(S) : WithAndWithout(s, R, s[i], a, b)
<1>1. PICK N \in Nat : N = Len(s)
  OBVIOUS
<1>2. PICK p \in S : p = s[i]
  BY <1>1
<1>3. \A before, one, after \in Seq(S) :
        (one = <<p>> /\ Misses(before, p) /\ Misses(after, p)) =>
          InParts(R, p, before, one, after)
  BY ChosenInParts, Zenon
<1>4. PICK one \in Seq(S) : one = <<p>>
  <2>1. <<p>> \in Seq(S)
    OBVIOUS
  <2> QED BY <2>1, Zenon
<1>5. PICK before, after \in Seq(S) : Around(s, i, before, after)
  BY SplitAround, Zenon
<1>6. Misses(before, p)
  <2> SUFFICES ASSUME NEW n \in 1..Len(before) PROVE before[n] # p
    BY DEF Misses
  <2>1. n \in 1..(i - 1) /\ n \in 1..N /\ n # i
    BY <1>1, <1>5 DEF Around
  <2>2. before[n] = s[n]
    BY <1>5, <2>1 DEF Around
  <2> QED BY <1>1, <1>2, <2>1, <2>2 DEF Distinct
<1>7. Misses(after, p)
  <2> SUFFICES ASSUME NEW n \in 1..Len(after) PROVE after[n] # p
    BY DEF Misses
  <2>1. n \in 1..(N - i) /\ i + n \in 1..N /\ i + n # i
    BY <1>1, <1>5 DEF Around
  <2>2. after[n] = s[i + n]
    BY <1>1, <1>5, <2>1 DEF Around
  <2> QED BY <1>1, <1>2, <2>1, <2>2 DEF Distinct
<1>8. InParts(R, p, before, one, after)
  BY <1>3, <1>4, <1>6, <1>7, Zenon
<1>9. s = (before \o one) \o after
  BY <1>2, <1>4, <1>5, Zenon DEF Around
<1>10. Chosen(before, R) \in Seq(S) /\ Chosen(after, R) \in Seq(S)
  BY ChosenType
<1>11. WithAndWithout(s, R, s[i], Chosen(before, R), Chosen(after, R))
  BY <1>2, <1>4, <1>8, <1>9, Zenon DEF InParts, WithAndWithout
<1> QED BY <1>10, <1>11, Zenon

\* Removing an element from a sequence, and putting it back.
StandsAt(p, i, with, without) ==
    /\ i \in DOMAIN with /\ with[i] = p
    /\ RR!RemoveAt(with, i) = without
    /\ i \in 1..(Len(without) + 1)
    /\ RR!InsertAt(without, i, p) = with

LEMMA RemoveInsert ==
    ASSUME NEW S, NEW a \in Seq(S), NEW b \in Seq(S), NEW p \in S, NEW s,
           s = (a \o <<p>>) \o b
    PROVE  StandsAt(p, Len(a) + 1, s, a \o b)
<1>1. PICK M \in Nat, N \in Nat : M = Len(a) /\ N = Len(b)
  OBVIOUS
<1>2. PICK t \in Seq(S) : t = a \o <<p>>
  <2>1. a \o <<p>> \in Seq(S)
    OBVIOUS
  <2> QED BY <2>1, Zenon
<1>3. Len(t) = M + 1 /\ t[M + 1] = p /\ \A n \in 1..M : t[n] = a[n]
  BY <1>1, <1>2
<1>4. s \in Seq(S) /\ s = t \o b /\ Len(s) = M + 1 + N
  BY <1>1, <1>2, <1>3
<1>5. /\ \A n \in 1..M : s[n] = a[n]
      /\ s[M + 1] = p
      /\ \A n \in 1..N : s[M + 1 + n] = b[n]
  BY <1>1, <1>3, <1>4
<1>6. SubSeq(s, 1, M) = a
  <2>1. \A n \in 1..M : s[n] \in S
    BY <1>4
  <2>2. /\ SubSeq(s, 1, M) \in Seq(S) /\ Len(SubSeq(s, 1, M)) = M
        /\ \A n \in 1..M : SubSeq(s, 1, M)[n] = s[n]
    BY <1>1, <1>4, <2>1
  <2> QED BY <1>1, <1>5, <2>2, SeqEqual
<1>7. SubSeq(s, M + 2, Len(s)) = b
  <2>1. M + 2 \in Int /\ M + 1 + N \in Int /\ \A n \in (M + 2)..(M + 1 + N) : s[n] \in S
    BY <1>1, <1>4
  <2>2. /\ SubSeq(s, M + 2, Len(s)) \in Seq(S)
        /\ Len(SubSeq(s, M + 2, Len(s))) = N
        /\ \A n \in 1..N : SubSeq(s, M + 2, Len(s))[n] = s[M + 1 + n]
    <3>1. PICK x \in Int, y \in Int : x = M + 2 /\ y = Len(s)
      BY <1>1, <1>4, <2>1
    <3>2. y - x + 1 = N /\ x <= y + 1 /\ \A n \in 1..N : x + n - 1 = M + 1 + n
      BY <1>1, <1>4, <2>1, <3>1
    <3>3. \A n \in x..y : s[n] \in S
      BY <1>4, <2>1, <3>1, Zenon
    <3>4. /\ SubSeq(s, x, y) \in Seq(S)
          /\ Len(SubSeq(s, x, y)) = y - x + 1
          /\ \A n \in 1..(y - x + 1) : SubSeq(s, x, y)[n] = s[x + n - 1]
      BY <3>1, <3>2, <3>3, SubSeqProperties
    <3> QED BY <3>1, <3>2, <3>4, Zenon
  <2>3. PICK d \in Seq(S) : d = SubSeq(s, M + 2, Len(s))
    BY <2>2, Zenon
  <2>4. Len(d) = Len(b) /\ \A n \in 1..Len(d) : d[n] = b[n]
    BY <1>1, <1>5, <2>2, <2>3
  <2>5. d = b
    BY <2>4, SeqEqual
  <2> QED BY <2>3, <2>5, Zenon
<1>8. PICK c \in Seq(S) : c = a \o b
  BY ConcatProperties
<1>9. /\ Len(c) = M + N
      /\ \A n \in 1..M : c[n] = a[n]
      /\ \A n \in 1..N : c[M + n] = b[n]
  BY <1>1, <1>8
<1>10. SubSeq(c, 1, M) = a
  <2>1. \A n \in 1..M : c[n] \in S
    BY <1>1, <1>9
  <2>2. /\ SubSeq(c, 1, M) \in Seq(S) /\ Len(SubSeq(c, 1, M)) = M
        /\ \A n \in 1..M : SubSeq(c, 1, M)[n] = c[n]
    BY <1>1, <1>9, <2>1
  <2> QED BY <1>1, <1>9, <2>2, SeqEqual
<1>11. SubSeq(c, M + 1, Len(c)) = b
  <2>1. /\ SubSeq(c, M + 1, Len(c)) \in Seq(S)
        /\ Len(SubSeq(c, M + 1, Len(c))) = N
        /\ \A n \in 1..N : SubSeq(c, M + 1, Len(c))[n] = c[M + n]
    BY <1>1, <1>8, <1>9
  <2>2. PICK d \in Seq(S) : d = SubSeq(c, M + 1, Len(c))
    BY <2>1, Zenon
  <2>3. Len(d) = Len(b) /\ \A n \in 1..Len(d) : d[n] = b[n]
    BY <1>1, <1>9, <2>1, <2>2
  <2> QED BY <2>2, <2>3, SeqEqual
<1>12. (M + 1) - 1 = M /\ (M + 1) + 1 = M + 2
  BY <1>1
<1>13. RR!RemoveAt(s, M + 1) = a \o b
  BY <1>6, <1>7, <1>12 DEF RR!RemoveAt
<1>14. RR!InsertAt(c, M + 1, p) = s
  BY <1>10, <1>11, <1>12 DEF RR!InsertAt
<1>15. M + 1 \in DOMAIN s /\ M + 1 \in 1..(Len(c) + 1)
  BY <1>1, <1>4, <1>9
<1> QED BY <1>1, <1>5, <1>8, <1>13, <1>14, <1>15, Zenon DEF StandsAt

-----------------------------------------------------------------------------
(* The scheduler is a round robin.                                         *)

\* A pid that is not in use has no quantum; nobody is blocked, killed or
\* RUNNING before scheduler_start.
NoQuantumYet == \A p \in Pid : state[p] = NONE => ticks_quantum[p] = 0
NobodyRunsYet == ~scheduler_running => \A p \in Pid : state[p] \in {NONE, READY}

RInv == IInv /\ NoQuantumYet /\ NobodyRunsYet

LEMMA InitRInv == Init => RInv
<1> SUFFICES ASSUME Init PROVE RInv
  OBVIOUS
<1>1. NoQuantumYet /\ NobodyRunsYet
  BY DEF Init, NoQuantumYet, NobodyRunsYet
<1> QED BY <1>1, InitIInv DEF RInv

LEMMA NextRInv == RInv /\ [Next]_vars => RInv'
<1> SUFFICES ASSUME RInv, [Next]_vars PROVE RInv'
  OBVIOUS
<1>1. IInv /\ IInv'
  BY NextPreserves DEF RInv
<1> SUFFICES NoQuantumYet' /\ NobodyRunsYet'
  BY <1>1 DEF RInv
<1>2. ASSUME NEW n \in Priorities, process_create(n)
      PROVE  NoQuantumYet' /\ NobodyRunsYet'
  <2>1. next_pid \in Pid /\ state' = [state EXCEPT ![next_pid] = READY]
    BY <1>1, <1>2 DEF process_create, IInv, TypeOK, next_pid
  <2>2. ticks_quantum' = [ticks_quantum EXCEPT ![next_pid] = n * QuantumUnit]
        /\ scheduler_running' = scheduler_running
    BY <1>2 DEF process_create
  <2> HIDE DEF next_pid
  <2>3. NoQuantumYet'
    <3> SUFFICES ASSUME NEW p \in Pid, state'[p] = NONE PROVE ticks_quantum'[p] = 0
      BY DEF NoQuantumYet
    <3>1. state \in [Pid -> States] /\ ticks_quantum \in [Pid -> Nat]
      BY <1>1 DEF IInv, TypeOK
    <3>2. p # next_pid
      BY <2>1, <3>1
    <3>3. state[p] = NONE /\ ticks_quantum'[p] = ticks_quantum[p]
      BY <2>1, <2>2, <3>1, <3>2
    <3> QED BY <3>3 DEF RInv, NoQuantumYet
  <2>4. NobodyRunsYet'
    BY <1>1, <2>1, <2>2 DEF RInv, NobodyRunsYet, IInv, TypeOK
  <2> QED BY <2>3, <2>4
<1>3. ASSUME scheduler_running, scheduler_running' = scheduler_running,
             ticks_quantum' = ticks_quantum
      PROVE  NoQuantumYet' /\ NobodyRunsYet'
  <2>1. \A p \in Pid : state'[p] = NONE => state[p] = NONE
    <3> SUFFICES ASSUME NEW p \in Pid, state[p] # NONE PROVE state'[p] # NONE
      OBVIOUS
    <3>1. Len(ring') >= Len(ring) /\ p <= Len(ring) /\ Len(ring) \in Nat /\ Len(ring') \in Nat
      <4>1. p <= Len(ring) /\ Len(ring) \in Nat /\ Len(ring') \in Nat
        BY <1>1 DEF IInv, PidsInUse, TypeOK
      <4>2. Len(ring') >= Len(ring)
        <5>1. CASE TickSwitches
          <6>1. PICK k \in 0..MAX_PROCESSES : ring' = Rotate(ring, Candidate(k))
            BY <5>1 DEF TickSwitches
          <6>2. ring # <<>> /\ ring \in Seq(Pid) /\ k \in Nat
            BY <1>1, <1>3, SizeAssumption DEF IInv, Phases, TypeOK
          <6>3. Candidate(k) \in 1..Len(ring)
            BY <6>2, CandidateInList
          <6>4. Len(ring') = Len(ring)
            BY <6>1, <6>2, <6>3, RotateShape
          <6> QED BY <4>1, <6>4
        <5>2. CASE ~TickSwitches
          <6>1. ring' = ring \/ ring' = Append(ring, next_pid)
            BY <1>1, <5>2, OthersAppend
          <6>2. ring \in Seq(Pid)
            BY <1>1 DEF IInv, TypeOK
          <6> QED BY <4>1, <6>1, <6>2
        <5> QED BY <5>1, <5>2
      <4> QED BY <4>1, <4>2
    <3>2. p <= Len(ring')
      <4>1. p \in Nat
        BY SizeAssumption
      <4> QED BY <3>1, <4>1
    <3> QED BY <1>1, <3>2 DEF IInv, PidsInUse
  <2> QED BY <1>3, <2>1 DEF RInv, NoQuantumYet, NobodyRunsYet
<1>4. CASE process_exit \/ Advance \/ \E p \in Pid : process_block(p) \/ process_unblock(p)
  <2>1. scheduler_running
    BY <1>1, <1>4, ExecutingIsCurrent
       DEF process_exit, Advance, process_block, process_unblock
  <2>2. UNCHANGED <<scheduler_running, ticks_quantum>>
    BY <1>4 DEF process_exit, Advance, process_block, process_unblock
  <2> QED BY <1>3, <2>1, <2>2
<1>5. CASE LoadFirst \/ scheduler_tick
  <2>1. scheduler_running /\ UNCHANGED <<scheduler_running, ticks_quantum>>
    BY <1>5 DEF LoadFirst, scheduler_tick, TickInQuantum, TickKeeps, TickSwitches,
                QuantumEnds, Tick
  <2> QED BY <1>3, <2>1
<1>6. CASE scheduler_start
  <2>1. \A p \in Pid : state'[p] = NONE => state[p] = NONE
    <3> SUFFICES ASSUME NEW p \in Pid, state[p] # NONE PROVE state'[p] # NONE
      OBVIOUS
    <3>1. state \in [Pid -> States] /\ state' = [state EXCEPT ![current_process] = RUNNING]
      BY <1>1, <1>6 DEF scheduler_start, IInv, TypeOK
    <3> QED BY <3>1
  <2>2. scheduler_running' = TRUE /\ ticks_quantum' = ticks_quantum
    BY <1>6 DEF scheduler_start
  <2> QED BY <2>1, <2>2 DEF RInv, NoQuantumYet, NobodyRunsYet
<1>7. CASE UNCHANGED vars
  BY <1>7 DEF vars, RInv, NoQuantumYet, NobodyRunsYet
<1> QED BY <1>2, <1>4, <1>5, <1>6, <1>7 DEF Next

\* The list behind the current process.
LEMMA OthersShape ==
    ASSUME IInv, ring # <<>>
    PROVE  /\ Others \in Seq(Pid) /\ Len(Others) = Len(ring) - 1
           /\ \A i \in 1..Len(Others) : i + 1 \in 1..Len(ring) /\ Others[i] = ring[i + 1]
           /\ Distinct(Others)
           /\ Misses(Others, current_process)
<1>1. PICK N \in Nat \ {0} : N = Len(ring) /\ ring \in Seq(Pid)
  <2>1. ring \in Seq(Pid) /\ Len(ring) \in Nat \ {0}
    BY DEF IInv, TypeOK
  <2> QED BY <2>1
<1>2. /\ Others \in Seq(Pid) /\ Len(Others) = N - 1
      /\ \A i \in 1..(N - 1) : Others[i] = ring[i + 1]
  <2> HIDE DEF Pid
  <2>1. \A i \in 2..N : ring[i] \in Pid
    BY <1>1
  <2>2. 2 \in Int /\ N \in Int
    BY <1>1
  <2>3. /\ SubSeq(ring, 2, N) \in Seq(Pid)
        /\ Len(SubSeq(ring, 2, N)) = IF 2 <= N THEN N - 2 + 1 ELSE 0
        /\ \A i \in 1..(N - 2 + 1) : SubSeq(ring, 2, N)[i] = ring[2 + i - 1]
    BY <2>1, <2>2, SubSeqProperties
  <2>4. N - 2 + 1 = N - 1 /\ \A i \in 1..(N - 1) : 2 + i - 1 = i + 1
    BY <1>1
  <2>5. Len(SubSeq(ring, 2, N)) = N - 1
    BY <1>1, <2>3
  <2> QED BY <1>1, <2>3, <2>4, <2>5 DEF Others
<1>3. \A a, b \in 1..N : ring[a] = ring[b] => a = b
  BY <1>1 DEF IInv, EachProcessOnce
<1>4. \A i \in 1..(N - 1) : i + 1 \in 1..N
  BY <1>1
<1>5. Distinct(Others)
  <2> SUFFICES ASSUME NEW a \in 1..(N - 1), NEW b \in 1..(N - 1), Others[a] = Others[b]
               PROVE  a = b
    BY <1>2 DEF Distinct
  <2>1. a + 1 = b + 1
    BY <1>2, <1>3, <1>4
  <2> QED BY <2>1
<1>6. Misses(Others, current_process)
  <2> SUFFICES ASSUME NEW a \in 1..(N - 1), Others[a] = current_process
               PROVE  FALSE
    BY <1>2 DEF Misses
  <2>1. ring[a + 1] = ring[1] /\ 1 \in 1..N /\ a + 1 # 1
    BY <1>1, <1>2 DEF current_process
  <2> QED BY <1>3, <1>4, <2>1
<1> QED BY <1>1, <1>2, <1>4, <1>5, <1>6

LEMMA NoOthers ==
    ASSUME ring = <<>>
    PROVE  Others = <<>> /\ ReadyAfterCurrent = <<>>
<1>1. Len(ring) = 0
  OBVIOUS
<1>2. Others = <<>>
  BY <1>1, SubSeqEmpty DEF Others
<1> QED BY <1>2, ChosenEmpty, Zenon DEF ReadyAfterCurrent

\* The queue, when the list stays as it is.
LEMMA QueueType ==
    ASSUME IInv
    PROVE  /\ ReadyAfterCurrent \in Seq(Pid)
           /\ \A i \in 1..Len(ReadyAfterCurrent) :
                ReadyAfterCurrent[i] \in Pid /\ state[ReadyAfterCurrent[i]] = READY
<1>1. Others \in Seq(Pid)
  <2>1. CASE ring = <<>>
    BY <2>1, NoOthers
  <2>2. CASE ring # <<>>
    BY <2>2, OthersShape
  <2> QED BY <2>1, <2>2
<1>2. ReadyAfterCurrent \in Seq(Pid)
  BY <1>1, ChosenType DEF ReadyAfterCurrent
<1>3. \A i \in 1..Len(ReadyAfterCurrent) : ReadyAfterCurrent[i] \in ReadyPids
  BY <1>1, ChosenElements DEF ReadyAfterCurrent
<1> QED BY <1>2, <1>3 DEF ReadyPids

\* process_create admits a process at the end of the queue.
LEMMA CreateAdmits ==
    ASSUME RInv, NEW n \in Priorities, process_create(n)
    PROVE  RR!Admit(next_pid, n * QuantumUnit)
<1> USE SizeAssumption
<1> DEFINE new == next_pid
<1>1. IInv /\ ring \in Seq(Pid) /\ Len(ring) \in Nat /\ state \in [Pid -> States]
  BY DEF RInv, IInv, TypeOK
<1>2. new \in Pid /\ new = Len(ring) + 1 /\ state[new] = NONE
  BY <1>1 DEF process_create, next_pid, IInv, PidsInUse
<1>3. ring' = Append(ring, new) /\ state' = [state EXCEPT ![new] = READY]
  BY DEF process_create
<1> HIDE DEF next_pid
<1>4. new \notin RR!Known
  BY <1>2 DEF RR!Known, RInv, NoQuantumYet
<1>5. /\ ticks_quantum' = [ticks_quantum EXCEPT ![new] = n * QuantumUnit]
      /\ UNCHANGED <<tick_count, scheduler_running>>
  BY DEF process_create
<1>6. /\ current_process = NULL => current_process' = new
      /\ current_process # NULL => current_process' = current_process
      /\ current_process = NULL <=> ring = <<>>
      /\ ring' # <<>>
  <2>1. ring' # <<>> /\ ring'[1] = IF ring = <<>> THEN new ELSE ring[1]
    BY <1>1, <1>2, <1>3
  <2>2. ring # <<>> => current_process \in Pid
    BY <1>1, CurrentProcess
  <2> QED BY <2>1, <2>2 DEF current_process
<1>7. ReadyPids' = ReadyPids \cup {new}
  BY <1>1, <1>2, <1>3 DEF ReadyPids
<1>8. CASE ring = <<>>
  <2>1. Len(ring') = 1
    BY <1>2, <1>3, <1>8
  <2>2. Others' = <<>>
    BY <2>1, SubSeqEmpty DEF Others
  <2>3. ReadyAfterCurrent' = <<>> /\ ReadyAfterCurrent = <<>>
    BY <1>8, <2>2, NoOthers, ChosenEmpty, Zenon DEF ReadyAfterCurrent
  <2>4. CurrentCanRun /\ CurrentCanRun'
    <3>1. state'[new] = READY
      BY <1>1, <1>2, <1>3
    <3> QED BY <1>6, <1>8, <3>1 DEF CurrentCanRun, Skipped
  <2> QED BY <1>4, <1>5, <1>6, <1>8, <2>3, <2>4 DEF RR!Admit
<1>9. CASE ring # <<>>
  <2>1. /\ Others \in Seq(Pid) /\ Len(Others) = Len(ring) - 1
        /\ \A i \in 1..Len(Others) : i + 1 \in 1..Len(ring) /\ Others[i] = ring[i + 1]
        /\ Misses(Others, current_process)
    BY <1>1, <1>9, OthersShape
  <2>2. Others' = Append(Others, new)
    <3>1. PICK N \in Nat \ {0} : N = Len(ring)
      BY <1>1, <1>9
    <3> HIDE DEF Pid
    <3>2. PICK r \in Seq(Pid) : r = ring' /\ Len(r) = N + 1 /\ r[N + 1] = new
                                /\ \A i \in 1..N : r[i] = ring[i]
      <4>1. ring' \in Seq(Pid) /\ Len(ring') = N + 1 /\ ring'[N + 1] = new
            /\ \A i \in 1..N : ring'[i] = ring[i]
        BY <1>1, <1>2, <1>3, <3>1
      <4> QED BY <4>1
    <3>3. PICK o \in Seq(Pid) : o = Append(Others, new) /\ Len(o) = N /\ o[N] = new
                                /\ \A i \in 1..(N - 1) : o[i] = ring[i + 1]
      <4>1. Append(Others, new) \in Seq(Pid) /\ Len(Append(Others, new)) = N
            /\ Append(Others, new)[N] = new
            /\ \A i \in 1..(N - 1) : Append(Others, new)[i] = ring[i + 1]
        BY <1>2, <2>1, <3>1
      <4> QED BY <4>1
    <3>4. /\ SubSeq(r, 2, N + 1) \in Seq(Pid) /\ Len(SubSeq(r, 2, N + 1)) = N
          /\ \A i \in 1..N : SubSeq(r, 2, N + 1)[i] = r[i + 1]
      BY <3>1, <3>2
    <3>5. \A i \in 1..N : r[i + 1] = o[i]
      BY <3>1, <3>2, <3>3
    <3>6. SubSeq(r, 2, N + 1) = o
      BY <3>3, <3>4, <3>5, SeqEqual
    <3> QED BY <3>2, <3>3, <3>6 DEF Others
  <2>3. ReadyAfterCurrent' = Append(ReadyAfterCurrent, new)
    <3>1. Misses(Others, new)
      <4>1. \A i \in 1..Len(ring) : state[ring[i]] # NONE
        BY <1>1, RingElements DEF IInv
      <4> QED BY <1>2, <2>1, <4>1 DEF Misses
    <3>2. Chosen(Others, ReadyPids') = Chosen(Others, ReadyPids)
      <4>1. \A i \in 1..Len(Others) : Others[i] \in ReadyPids' <=> Others[i] \in ReadyPids
        BY <1>7, <3>1 DEF Misses
      <4> QED BY <2>1, <4>1, ChosenSame
    <3>3. new \in ReadyPids'
      BY <1>7
    <3>4. Chosen(Append(Others, new), ReadyPids') = Append(Chosen(Others, ReadyPids'), new)
      <4> HIDE DEF Pid
      <4>1. PICK R, T : R = ReadyPids' /\ T = Others
        OBVIOUS
      <4>2. T \in Seq(Pid) /\ new \in Pid /\ new \in R
        BY <1>2, <2>1, <3>3, <4>1
      <4>3. Chosen(Append(T, new), R) = Append(Chosen(T, R), new)
        BY <4>2, ChosenAppend
      <4> QED BY <4>1, <4>3, Zenon
    <3> QED BY <2>2, <3>2, <3>4, Zenon DEF ReadyAfterCurrent
  <2>4. CurrentCanRun' <=> CurrentCanRun
    <3>1. current_process \in Pid /\ state[current_process] # NONE
      BY <1>1, <1>9, CurrentProcess
    <3>2. state'[current_process] = state[current_process]
      BY <1>1, <1>2, <1>3, <3>1
    <3> QED BY <1>6, <1>9, <3>2 DEF CurrentCanRun, Skipped
  <2> QED BY <1>4, <1>5, <1>6, <1>9, <2>3, <2>4 DEF RR!Admit
<1> QED BY <1>8, <1>9

\* A step that changes the state of the current process only leaves the queue
\* as it is.
LEMMA CurrentNotQueued ==
    ASSUME IInv, ring # <<>>, ring' = ring,
           \A p \in Pid : p # current_process => (state'[p] = READY <=> state[p] = READY)
    PROVE  ReadyAfterCurrent' = ReadyAfterCurrent
<1>1. /\ Others \in Seq(Pid) /\ Misses(Others, current_process)
      /\ \A i \in 1..Len(Others) : Others[i] \in Pid
  <2>1. Others \in Seq(Pid) /\ Misses(Others, current_process)
    BY OthersShape
  <2>2. \A i \in 1..Len(Others) : Others[i] \in Pid
    <3> HIDE DEF Pid
    <3> QED BY <2>1
  <2> QED BY <2>1, <2>2
<1>2. Others' = Others
  BY DEF Others
<1>3. \A i \in 1..Len(Others) : Others[i] \in ReadyPids' <=> Others[i] \in ReadyPids
  BY <1>1 DEF Misses, ReadyPids
<1>4. Chosen(Others, ReadyPids') = Chosen(Others, ReadyPids)
  BY <1>1, <1>3, ChosenSame
<1> QED BY <1>2, <1>4, Zenon DEF ReadyAfterCurrent

\* A process that exits can no longer use the processor.
LEMMA ExitQuits ==
    ASSUME RInv, process_exit
    PROVE  RR!Quit
<1>1. IInv /\ ring # <<>> /\ current_process \in Pid
  BY ExecutingIsCurrent DEF RInv, process_exit
<1>2. ring' = ring /\ current_process' = current_process
      /\ state' = [state EXCEPT ![current_process] = DEAD]
      /\ UNCHANGED <<ticks_quantum, tick_count, scheduler_running>>
  BY DEF process_exit, current_process
<1>3. state \in [Pid -> States]
  BY <1>1 DEF IInv, TypeOK
<1>4. ReadyAfterCurrent' = ReadyAfterCurrent
  <2>1. \A p \in Pid : p # current_process => (state'[p] = READY <=> state[p] = READY)
    BY <1>2, <1>3
  <2> QED BY <1>1, <1>2, <2>1, CurrentNotQueued
<1>5. CurrentCanRun' = FALSE
  BY <1>1, <1>2, <1>3 DEF CurrentCanRun, Skipped
<1> QED BY <1>1, <1>2, <1>4, <1>5 DEF RR!Quit

\* Where a process that is not current stands, with and without being READY.
LEMMA QueueAround ==
    ASSUME IInv, ring # <<>>, NEW p \in Pid, state[p] # NONE, p # current_process
    PROVE  \E a, b \in Seq(Pid) : WithAndWithout(Others, ReadyPids, p, a, b)
<1>1. PICK i \in 1..Len(ring) : ring[i] = p
  BY DEF IInv, EachProcessOnce
<1>2. /\ Others \in Seq(Pid) /\ Len(Others) = Len(ring) - 1 /\ Distinct(Others)
      /\ \A n \in 1..Len(Others) : n + 1 \in 1..Len(ring) /\ Others[n] = ring[n + 1]
      /\ Len(ring) \in Nat
  BY OthersShape, RingElements DEF IInv
<1>3. i - 1 \in 1..Len(Others) /\ Others[i - 1] = p
  <2>1. i # 1
    BY <1>1 DEF current_process
  <2>2. i - 1 \in 1..Len(Others) /\ (i - 1) + 1 = i
    BY <1>2, <2>1
  <2> QED BY <1>1, <1>2, <2>2
<1> HIDE DEF Pid
<1>4. PICK j \in 1..Len(Others) : Others[j] = p
  BY <1>3
<1>5. \E a, b \in Seq(Pid) : WithAndWithout(Others, ReadyPids, Others[j], a, b)
  BY <1>2, ChosenAround, Zenon
<1> QED BY <1>4, <1>5, Zenon

\* Blocking takes a waiting process out of the queue, and the current one its
\* right to the processor.
LEMMA BlockWithdraws ==
    ASSUME RInv, NEW p \in Pid, process_block(p)
    PROVE  RR!Quit \/ RR!Withdraw(p) \/ UNCHANGED RR!rrVars
<1>1. IInv /\ ring # <<>> /\ current_process \in Pid
  BY ExecutingIsCurrent DEF RInv, process_block
<1>2. /\ ring' = ring /\ current_process' = current_process
      /\ state' = [state EXCEPT ![p] = BLOCKED] /\ state[p] # NONE
      /\ UNCHANGED <<ticks_quantum, tick_count, scheduler_running>>
  BY DEF process_block, current_process
<1>3. state \in [Pid -> States]
  BY <1>1 DEF IInv, TypeOK
<1>4. CASE p = current_process
  <2>1. \A q \in Pid : q # current_process => (state'[q] = READY <=> state[q] = READY)
    BY <1>2, <1>3, <1>4
  <2>2. ReadyAfterCurrent' = ReadyAfterCurrent
    BY <1>1, <1>2, <2>1, CurrentNotQueued
  <2>3. CurrentCanRun' = FALSE
    BY <1>1, <1>2, <1>3, <1>4 DEF CurrentCanRun, Skipped
  <2> QED BY <1>1, <1>2, <2>2, <2>3 DEF RR!Quit
<1>5. ASSUME p # current_process
      PROVE  CurrentCanRun' = CurrentCanRun
  <2>1. state'[current_process] = state[current_process]
    BY <1>1, <1>2, <1>3, <1>5
  <2> QED BY <1>2, <2>1 DEF CurrentCanRun, Skipped
<1>6. CASE p # current_process /\ state[p] # READY
  <2>1. \A q \in Pid : q # current_process => (state'[q] = READY <=> state[q] = READY)
    BY <1>2, <1>3, <1>6
  <2>2. ReadyAfterCurrent' = ReadyAfterCurrent
    BY <1>1, <1>2, <2>1, CurrentNotQueued
  <2> QED BY <1>2, <1>5, <1>6, <2>2 DEF RR!rrVars
<1>7. CASE p # current_process /\ state[p] = READY
  <2>1. PICK a, b \in Seq(Pid) : WithAndWithout(Others, ReadyPids, p, a, b)
    BY <1>1, <1>2, <1>7, QueueAround
  <2>2. ReadyPids \cup {p} = ReadyPids /\ ReadyPids' = ReadyPids \ {p}
    BY <1>2, <1>3, <1>7 DEF ReadyPids
  <2>3. Others' = Others
    BY <1>2 DEF Others
  <2> DEFINE q == ReadyAfterCurrent
             n == Len(a) + 1
  <2>4. q = (a \o <<p>>) \o b /\ q' = a \o b
    BY <2>1, <2>2, <2>3, Zenon DEF ReadyAfterCurrent, WithAndWithout
  <2>5. StandsAt(p, n, q, q')
    <3> HIDE DEF Pid
    <3>1. StandsAt(p, n, q, a \o b)
      BY <2>4, RemoveInsert, Zenon
    <3> QED BY <2>4, <3>1, Zenon
  <2>6. \E i \in DOMAIN q : q[i] = p /\ q' = RR!RemoveAt(q, i)
    BY <2>5, Zenon DEF StandsAt
  <2>7. UNCHANGED <<current_process, CurrentCanRun, ticks_quantum, tick_count, scheduler_running>>
    BY <1>2, <1>5, <1>7
  <2> QED BY <2>6, <2>7, Zenon DEF RR!Withdraw
<1> QED BY <1>4, <1>6, <1>7

\* Unblocking puts a process back at its place, and gives the current one its
\* right to the processor back.
LEMMA UnblockReturns ==
    ASSUME RInv, NEW p \in Pid, process_unblock(p)
    PROVE  RR!Resume \/ RR!Return(p) \/ UNCHANGED RR!rrVars
<1>1. IInv /\ ring # <<>> /\ current_process \in Pid
  BY ExecutingIsCurrent DEF RInv, process_unblock
<1>2. /\ ring' = ring /\ current_process' = current_process
      /\ state' = [state EXCEPT ![p] = READY] /\ state[p] # NONE
      /\ UNCHANGED <<ticks_quantum, tick_count, scheduler_running>>
  BY DEF process_unblock, current_process
<1>3. state \in [Pid -> States]
  BY <1>1 DEF IInv, TypeOK
<1>4. CASE p = current_process
  <2>1. \A q \in Pid : q # current_process => (state'[q] = READY <=> state[q] = READY)
    BY <1>2, <1>3, <1>4
  <2>2. ReadyAfterCurrent' = ReadyAfterCurrent
    BY <1>1, <1>2, <2>1, CurrentNotQueued
  <2>3. CurrentCanRun' = TRUE
    BY <1>1, <1>2, <1>3, <1>4 DEF CurrentCanRun, Skipped
  <2> QED BY <1>1, <1>2, <2>2, <2>3 DEF RR!Resume
<1>5. CASE p # current_process /\ state[p] = READY
  <2>1. state' = state
    BY <1>2, <1>3, <1>5
  <2>2. UNCHANGED <<current_process, CurrentCanRun, ReadyAfterCurrent>>
    BY <1>2, <2>1 DEF current_process, CurrentCanRun, Skipped,
                      ReadyAfterCurrent, Others, ReadyPids
  <2> QED BY <1>2, <2>2 DEF RR!rrVars
<1>6. CASE p # current_process /\ state[p] # READY
  <2>1. PICK a, b \in Seq(Pid) : WithAndWithout(Others, ReadyPids, p, a, b)
    BY <1>1, <1>2, <1>6, QueueAround
  <2>2. ReadyPids \ {p} = ReadyPids /\ ReadyPids' = ReadyPids \cup {p}
    BY <1>2, <1>3, <1>6 DEF ReadyPids
  <2>3. Others' = Others
    BY <1>2 DEF Others
  <2> DEFINE q == ReadyAfterCurrent
             n == Len(a) + 1
  <2>4. q = a \o b /\ q' = (a \o <<p>>) \o b
    BY <2>1, <2>2, <2>3, Zenon DEF ReadyAfterCurrent, WithAndWithout
  <2>5. StandsAt(p, n, q', q)
    <3> HIDE DEF Pid
    <3>1. StandsAt(p, n, q', a \o b)
      BY <2>4, RemoveInsert, Zenon
    <3> QED BY <2>4, <3>1, Zenon
  <2>6. \E i \in 1..(Len(q) + 1) : q' = RR!InsertAt(q, i, p)
    BY <2>5, Zenon DEF StandsAt
  <2>7. p \in RR!Known \ (RR!Waiting \cup {current_process})
    <3>1. ticks_quantum[p] # 0
      <4>1. ticks_quantum[p] >= QuantumUnit /\ ticks_quantum[p] \in Nat
        BY <1>1, <1>2 DEF IInv, QuantaPositive, TypeOK
      <4> QED BY <4>1, QuantumAssumption
    <3>2. \A i \in DOMAIN q : q[i] # p
      <4>1. \A i \in 1..Len(q) : state[q[i]] = READY
        BY <1>1, QueueType
      <4>2. DOMAIN q = 1..Len(q)
        <5>1. q \in Seq(Pid)
          BY <1>1, QueueType
        <5> QED BY <5>1
      <4> QED BY <1>6, <4>1, <4>2
    <3> QED BY <1>6, <3>1, <3>2 DEF RR!Known, RR!Waiting, RR!ToSet
  <2>8. CurrentCanRun' = CurrentCanRun
    <3>1. state'[current_process] = state[current_process]
      BY <1>1, <1>2, <1>3, <1>6
    <3> QED BY <1>2, <3>1 DEF CurrentCanRun, Skipped
  <2>9. UNCHANGED <<current_process, CurrentCanRun, ticks_quantum, tick_count, scheduler_running>>
    BY <1>2, <2>8
  <2> QED BY <2>6, <2>7, <2>9, Zenon DEF RR!Return
<1> QED BY <1>4, <1>5, <1>6

\* scheduler_start starts the counting of ticks.
LEMMA StartStarts ==
    ASSUME RInv, scheduler_start
    PROVE  RR!Start
<1>1. IInv /\ ring # <<>> /\ ~scheduler_running
  BY DEF RInv, scheduler_start, BootExecutes, current_process
<1>2. current_process \in Pid /\ state[current_process] # NONE /\ state \in [Pid -> States]
  BY <1>1, CurrentProcess DEF IInv, TypeOK
<1>3. /\ ring' = ring /\ current_process' = current_process
      /\ state' = [state EXCEPT ![current_process] = RUNNING]
      /\ scheduler_running' = TRUE /\ UNCHANGED <<ticks_quantum, tick_count>>
  BY DEF scheduler_start, current_process
<1>4. ReadyAfterCurrent' = ReadyAfterCurrent
  <2>1. \A p \in Pid : p # current_process => (state'[p] = READY <=> state[p] = READY)
    BY <1>2, <1>3
  <2> QED BY <1>1, <1>3, <2>1, CurrentNotQueued
<1>5. CurrentCanRun = TRUE
  BY <1>1, <1>2 DEF RInv, NobodyRunsYet, CurrentCanRun, Skipped
<1>6. CurrentCanRun' = TRUE
  BY <1>2, <1>3 DEF CurrentCanRun, Skipped
<1> QED BY <1>2, <1>3, <1>4, <1>5, <1>6 DEF RR!Start

\* What the round robin does not see.
LEMMA NothingSeen ==
    ASSUME UNCHANGED <<ring, state, ticks_quantum>>
    PROVE  UNCHANGED <<current_process, CurrentCanRun, ReadyAfterCurrent, ticks_quantum>>
BY DEF current_process, CurrentCanRun, Skipped, ReadyAfterCurrent, Others, ReadyPids

\* A tick within the quantum is counted.
LEMMA InQuantumCounts ==
    ASSUME RInv, TickInQuantum
    PROVE  RR!Count
<1>1. /\ scheduler_running /\ tick_count + 1 < ticks_quantum[current_process]
      /\ tick_count' = tick_count + 1
      /\ UNCHANGED <<ring, state, ticks_quantum, scheduler_running>>
  BY DEF TickInQuantum, Tick
<1>2. UNCHANGED <<current_process, CurrentCanRun, ReadyAfterCurrent, ticks_quantum>>
  BY <1>1, NothingSeen
<1> QED BY <1>1, <1>2 DEF RR!Count

\* A quantum ends when all its ticks have been used, not later.
LEMMA QuantumEndsSlice ==
    ASSUME RInv, QuantumEnds
    PROVE  RR!SliceEnds /\ IInv /\ ring # <<>> /\ current_process \in Pid
<1>1. Tick /\ tick_count + 1 >= ticks_quantum[current_process]
      /\ tick_count' = 0 /\ UNCHANGED <<ticks_quantum, scheduler_running>>
  BY DEF QuantumEnds
<1>2. IInv /\ ring # <<>> /\ current_process \in Pid /\ scheduler_running
  BY <1>1, TickCharges DEF RInv, Tick
<1>3. tick_count < ticks_quantum[current_process] /\ tick_count \in Nat
      /\ ticks_quantum[current_process] \in Nat
  BY <1>2 DEF IInv, WithinQuantum, TypeOK
<1>4. tick_count + 1 = ticks_quantum[current_process]
  BY <1>1, <1>3
<1> QED BY <1>1, <1>2, <1>4 DEF RR!SliceEnds

\* The search looks at the whole list before it gives up.
LEMMA SearchedAre ==
    ASSUME IInv, NEW k \in Nat, SearchEnds(k), NEW i \in 2..Len(ring),
           i < k + 2
    PROVE  Skipped(ring[i])
<1>1. ring \in Seq(Pid) /\ Len(ring) \in Nat
  BY DEF IInv, TypeOK
<1>2. i - 2 \in Nat /\ (i - 2) + 1 < Len(ring) /\ i - 2 \in 0..(k - 1) /\ (i - 2) + 2 = i
  BY <1>1
<1>3. Candidate(i - 2) = i
  BY <1>1, <1>2, CandidateFirstRound
<1> QED BY <1>2, <1>3 DEF SearchEnds

\* The current process keeps the processor only when nobody waits for it.
LEMMA KeepsTurn ==
    ASSUME MaxPid <= MAX_PROCESSES + 1, RInv, TickKeeps
    PROVE  RR!KeepTurn
<1>1. QuantumEnds /\ UNCHANGED <<ring, state>> /\ ticks_quantum' = ticks_quantum
  BY DEF TickKeeps, QuantumEnds
<1>2. RR!SliceEnds /\ IInv /\ ring # <<>> /\ current_process \in Pid
  BY <1>1, QuantumEndsSlice
<1>3. UNCHANGED <<current_process, CurrentCanRun, ReadyAfterCurrent>>
  BY <1>1, NothingSeen
<1>4. PICK k \in 0..MAX_PROCESSES :
        /\ SearchEnds(k)
        /\ ring[Candidate(k)] = current_process \/ state[ring[Candidate(k)]] = DEAD
  BY DEF TickKeeps
<1>5. k \in Nat /\ MAX_PROCESSES \in Nat /\ MaxPid \in Nat /\ k <= MAX_PROCESSES
      /\ ring \in Seq(Pid) /\ Len(ring) \in Nat \ {0} /\ Len(ring) <= MaxPid
  BY <1>2, SizeAssumption DEF IInv, TypeOK
<1>6. ASSUME NEW i \in 2..Len(ring), state[ring[i]] = READY PROVE FALSE
  <2>1. ~Skipped(ring[i])
    BY <1>6 DEF Skipped
  <2>2. k + 2 <= i /\ k + 1 < Len(ring)
    BY <1>2, <1>4, <1>5, <2>1, SearchedAre
  <2>3. Candidate(k) = k + 2 /\ k + 2 \in 1..Len(ring) /\ k + 2 # 1 /\ 1 \in 1..Len(ring)
    BY <1>5, <2>2, CandidateFirstRound
  <2>4. ring[k + 2] # ring[1]
    BY <1>2, <2>3 DEF IInv, EachProcessOnce
  <2>5. state[ring[k + 2]] = DEAD
    BY <1>2, <1>4, <2>3, <2>4 DEF current_process
  <2>6. k = MAX_PROCESSES
    BY <1>4, <2>3, <2>5 DEF SearchEnds, Skipped
  <2> QED BY <1>5, <2>2, <2>6
<1>7. ReadyAfterCurrent = <<>>
  <2>1. /\ Others \in Seq(Pid)
        /\ \A i \in 1..Len(Others) : i + 1 \in 2..Len(ring) /\ Others[i] = ring[i + 1]
    BY <1>2, <1>5, OthersShape
  <2>2. \A i \in 1..Len(Others) : Others[i] \notin ReadyPids
    BY <1>6, <2>1 DEF ReadyPids
  <2> QED BY <2>1, <2>2, ChosenNone DEF ReadyAfterCurrent
<1> QED BY <1>2, <1>3, <1>7 DEF RR!KeepTurn

\* The list behind the current process after a rotation.
LEMMA RotatedOthers ==
    ASSUME IInv, ring # <<>>, NEW j \in 2..Len(ring), ring' = Rotate(ring, j),
           NEW a \in Seq(Pid), NEW b \in Seq(Pid), Around(Others, j - 1, a, b),
           NEW one \in Seq(Pid), one = <<current_process>>
    PROVE  Others' = (b \o one) \o a
<1>1. PICK N \in Nat \ {0} : N = Len(ring) /\ ring \in Seq(Pid)
  <2>1. ring \in Seq(Pid) /\ Len(ring) \in Nat \ {0}
    BY DEF IInv, TypeOK
  <2> QED BY <2>1
<1>2. Len(Others) = N - 1 /\ \A i \in 1..(N - 1) : Others[i] = ring[i + 1]
  BY <1>1, OthersShape
<1>3. /\ Len(a) = j - 2 /\ Len(b) = N - j
      /\ \A m \in 1..(j - 2) : a[m] = ring[m + 1]
      /\ \A m \in 1..(N - j) : b[m] = ring[j + m]
  <2>1. /\ Len(a) = j - 2 /\ Len(b) = N - j
        /\ \A m \in 1..(j - 2) : a[m] = Others[m]
        /\ \A m \in 1..(N - j) : b[m] = Others[(j - 1) + m]
    <3>1. (j - 1) - 1 = j - 2 /\ (N - 1) - (j - 1) = N - j
      BY <1>1
    <3> QED BY <1>2, <3>1, Zenon DEF Around
  <2>2. \A m \in 1..(j - 2) : m \in 1..(N - 1)
    BY <1>1
  <2>3. \A m \in 1..(N - j) : (j - 1) + m \in 1..(N - 1) /\ ((j - 1) + m) + 1 = j + m
    BY <1>1
  <2> QED BY <1>2, <2>1, <2>2, <2>3
<1>4. Len(one) = 1 /\ one[1] = ring[1]
  BY DEF current_process
<1>5. PICK r \in Seq(Pid) : r = ring' /\ Len(r) = N
  <2>1. j \in 1..Len(ring)
    BY <1>1
  <2> HIDE DEF Pid
  <2> QED BY <1>1, <2>1, RotateShape
<1>6. \A i \in 1..(N - 1) :
        r[i + 1] = IF i + j <= N THEN ring[i + j] ELSE ring[i + j - N]
  <2> TAKE i \in 1..(N - 1)
  <2>1. i + 1 \in 1..N /\ (i + 1) + j - 1 = i + j
    BY <1>1
  <2> QED BY <1>1, <1>5, <2>1 DEF Rotate
<1> HIDE DEF Pid
<1>7. PICK o \in Seq(Pid) :
        /\ o = Others' /\ Len(o) = N - 1 /\ \A i \in 1..(N - 1) : o[i] = r[i + 1]
  <2>1. /\ SubSeq(r, 2, N) \in Seq(Pid) /\ Len(SubSeq(r, 2, N)) = N - 1
        /\ \A i \in 1..(N - 1) : SubSeq(r, 2, N)[i] = r[i + 1]
    BY <1>1, <1>5
  <2> QED BY <1>5, <2>1 DEF Others
<1>8. PICK t \in Seq(Pid) :
        /\ t = b \o one /\ Len(t) = N - j + 1
        /\ \A i \in 1..(N - j) : t[i] = b[i]
        /\ t[N - j + 1] = ring[1]
  <2>1. /\ b \o one \in Seq(Pid) /\ Len(b \o one) = N - j + 1
        /\ \A i \in 1..(N - j) : (b \o one)[i] = b[i]
        /\ (b \o one)[N - j + 1] = one[1]
    <3>1. /\ b \o one \in Seq(Pid) /\ Len(b \o one) = Len(b) + Len(one)
          /\ \A i \in 1..(Len(b) + Len(one)) :
               (b \o one)[i] = IF i <= Len(b) THEN b[i] ELSE one[i - Len(b)]
      BY ConcatProperties
    <3>2. /\ Len(b) + Len(one) = N - j + 1 /\ N - j + 1 \in 1..(N - j + 1)
          /\ ~(N - j + 1 <= N - j) /\ (N - j + 1) - (N - j) = 1
      BY <1>1, <1>3, <1>4
    <3>3. \A i \in 1..(N - j) : i \in 1..(N - j + 1) /\ i <= N - j
      BY <1>1
    <3>4. \A i \in 1..(N - j + 1) :
            (b \o one)[i] = IF i <= N - j THEN b[i] ELSE one[i - (N - j)]
      BY <1>3, <3>1, <3>2, Zenon
    <3>5. (b \o one)[N - j + 1] = one[1]
      BY <3>2, <3>4, Zenon
    <3>6. \A i \in 1..(N - j) : (b \o one)[i] = b[i]
      BY <3>3, <3>4, Zenon
    <3> QED BY <3>1, <3>2, <3>5, <3>6, Zenon
  <2> QED BY <1>4, <2>1
<1>9. PICK u \in Seq(Pid) :
        /\ u = t \o a /\ Len(u) = N - 1
        /\ \A i \in 1..(N - j + 1) : u[i] = t[i]
        /\ \A i \in 1..(j - 2) : u[(N - j + 1) + i] = a[i]
  <2>1. /\ t \o a \in Seq(Pid) /\ Len(t \o a) = N - 1
        /\ \A i \in 1..(N - j + 1) : (t \o a)[i] = t[i]
        /\ \A i \in 1..(j - 2) : (t \o a)[(N - j + 1) + i] = a[i]
    <3>1. /\ t \o a \in Seq(Pid) /\ Len(t \o a) = Len(t) + Len(a)
          /\ \A i \in 1..(Len(t) + Len(a)) :
               (t \o a)[i] = IF i <= Len(t) THEN t[i] ELSE a[i - Len(t)]
      BY ConcatProperties
    <3>2. Len(t) + Len(a) = N - 1 /\ Len(t) = N - j + 1
      <4>1. Len(t) = N - j + 1 /\ Len(a) = j - 2
        BY <1>3, <1>8
      <4>2. N - j + 1 + (j - 2) = N - 1
        BY <1>1
      <4> QED BY <4>1, <4>2
    <3>0. N \in Int /\ j \in Int /\ j >= 2 /\ j <= N
      BY <1>1
    <3>3. ASSUME NEW i \in 1..(N - j + 1) PROVE i \in 1..(N - 1) /\ i <= N - j + 1
      <4>1. i \in Int /\ i >= 1 /\ i <= N - j + 1
        BY <3>0
      <4> QED BY <3>0, <4>1
    <3>4. ASSUME NEW i \in 1..(j - 2)
          PROVE  /\ (N - j + 1) + i \in 1..(N - 1)
                 /\ ~((N - j + 1) + i <= N - j + 1)
                 /\ ((N - j + 1) + i) - (N - j + 1) = i
      <4>1. i \in Int /\ i >= 1 /\ i <= j - 2
        BY <3>0
      <4>2. (N - j + 1) + i >= 1 /\ (N - j + 1) + i <= N - 1
        BY <3>0, <4>1
      <4>3. (N - j + 1) + i \in Int
        BY <3>0, <4>1
      <4>4. (N - j + 1) + i \in 1..(N - 1)
        BY <3>0, <4>2, <4>3
      <4>5. ~((N - j + 1) + i <= N - j + 1) /\ ((N - j + 1) + i) - (N - j + 1) = i
        BY <3>0, <4>1
      <4> QED BY <4>4, <4>5
    <3>5. \A i \in 1..(N - 1) :
            (t \o a)[i] = IF i <= N - j + 1 THEN t[i] ELSE a[i - (N - j + 1)]
      BY <3>1, <3>2, Zenon
    <3>6. ASSUME NEW i \in 1..(N - j + 1) PROVE (t \o a)[i] = t[i]
      BY <3>3, <3>5, Zenon
    <3>7. ASSUME NEW i \in 1..(j - 2) PROVE (t \o a)[(N - j + 1) + i] = a[i]
      BY <3>4, <3>5, Zenon
    <3> QED BY <3>1, <3>2, <3>6, <3>7, Zenon
  <2> QED BY <2>1
<1>10. ASSUME NEW i \in 1..(N - 1) PROVE o[i] = u[i]
  <2>1. CASE i \in 1..(N - j)
    <3>1. i + j <= N /\ i \in 1..(N - j + 1) /\ i + j = j + i
      BY <1>1, <2>1
    <3>2. o[i] = ring[j + i]
      BY <1>6, <1>7, <3>1, Zenon
    <3>3. u[i] = t[i]
      BY <1>9, <3>1, Zenon
    <3>4. t[i] = b[i]
      BY <1>8, <2>1, Zenon
    <3>5. b[i] = ring[j + i]
      BY <1>3, <2>1, Zenon
    <3> QED BY <3>2, <3>3, <3>4, <3>5, Zenon
  <2>2. CASE i = N - j + 1
    <3>1. ~(i + j <= N) /\ i + j - N = 1 /\ i \in 1..(N - j + 1)
      BY <1>1, <2>2
    <3>2. o[i] = ring[1]
      BY <1>6, <1>7, <3>1, Zenon
    <3>3. u[i] = t[i]
      BY <1>9, <3>1, Zenon
    <3> QED BY <1>4, <1>8, <2>2, <3>2, <3>3, Zenon
  <2>3. CASE i \in (N - j + 2)..(N - 1)
    <3>1. PICK m \in 1..(j - 2) : i = (N - j + 1) + m /\ ~(i + j <= N) /\ i + j - N = m + 1
      <4>1. i \in Nat /\ j \in Nat /\ i >= N - j + 2 /\ i <= N - 1
        BY <1>1, <2>3
      <4>2. PICK m \in Int : m = i - (N - j + 1)
        BY <4>1
      <4>3. m \in 1..(j - 2) /\ i = (N - j + 1) + m
        BY <4>1, <4>2
      <4>4. ~(i + j <= N) /\ i + j - N = m + 1
        BY <4>1, <4>2
      <4> QED BY <4>3, <4>4
    <3>2. o[i] = ring[m + 1]
      BY <1>6, <1>7, <3>1
    <3>3. u[i] = a[m]
      BY <1>9, <3>1
    <3> QED BY <1>3, <3>2, <3>3
  <2>4. i \in 1..(N - j) \/ i = N - j + 1 \/ i \in (N - j + 2)..(N - 1)
    <3>1. PICK M \in Int : M = N - j
      <4>1. j \in Int /\ N \in Int
        BY <1>1
      <4>2. N - j \in Int
        BY <4>1
      <4> QED BY <4>2, Zenon
    <3>2. i \in Int /\ 1 <= i /\ i <= N - 1
      BY <1>1
    <3>3. i \in 1..M \/ i = M + 1 \/ i \in (M + 2)..(N - 1)
      BY <3>2
    <3> QED BY <3>1, <3>3
  <2> QED BY <2>1, <2>2, <2>3, <2>4
<1>11. o = u
  BY <1>7, <1>9, <1>10, SeqEqual
<1> QED BY <1>7, <1>8, <1>9, <1>11, Zenon

\* After a switch the process that had the processor is at the end of the
\* queue; before it, a READY successor was at its head.
SwitchedQueue(next, b) ==
    /\ current_process' = next
    /\ ReadyAfterCurrent' = Append(b, current_process)
    /\ state[next] = READY => ReadyAfterCurrent = <<next>> \o b
    /\ ReadyPids = {} => b = <<>> /\ ReadyAfterCurrent = <<>>

LEMMA SwitchQueue ==
    ASSUME RInv, TickSwitches
    PROVE  \E next \in Pid, b \in Seq(Pid) :
             /\ next # current_process /\ state[next] # NONE /\ state'[next] = RUNNING
             /\ SwitchedQueue(next, b)
<1> DEFINE c == current_process
<1>1. QuantumEnds
  BY DEF TickSwitches
<1>2. IInv /\ ring # <<>> /\ c \in Pid
  BY <1>1, QuantumEndsSlice
<1>3. PICK k \in 0..MAX_PROCESSES :
        /\ SearchEnds(k) /\ ring[Candidate(k)] # c
        /\ state' = [state EXCEPT ![c] = READY, ![ring[Candidate(k)]] = RUNNING]
        /\ ring' = Rotate(ring, Candidate(k))
  BY DEF TickSwitches
<1>4. PICK j \in 1..Len(ring) : j = Candidate(k)
  <2>1. k \in Nat /\ ring \in Seq(Pid)
    BY <1>2, <1>3, SizeAssumption DEF IInv, TypeOK
  <2> QED BY <1>2, <2>1, CandidateInList
<1>5. PICK N \in Nat \ {0} : N = Len(ring) /\ ring \in Seq(Pid)
  <2>1. ring \in Seq(Pid) /\ Len(ring) \in Nat \ {0}
    BY <1>2 DEF IInv, TypeOK
  <2> QED BY <2>1
<1>6. j \in 2..N /\ j - 1 \in 1..(N - 1) /\ (j - 1) + 1 = j
  <2>1. j # 1
    BY <1>3, <1>4 DEF current_process
  <2> QED BY <1>4, <1>5, <2>1
<1>7. PICK next \in Pid : next = ring[j] /\ state[next] # NONE
  BY <1>2, <1>4, RingElements DEF IInv
<1>8. state \in [Pid -> States] /\ next # c /\ current_process' = next
  <2>1. state \in [Pid -> States] /\ next # c
    BY <1>2, <1>3, <1>4, <1>7 DEF IInv, TypeOK
  <2>2. Len(ring') = N /\ ring'[1] = next
    <3> HIDE DEF Pid
    <3> QED BY <1>3, <1>4, <1>5, <1>7, RotateShape
  <2>3. ring' # <<>>
    BY <1>5, <2>2
  <2> QED BY <2>1, <2>2, <2>3 DEF current_process
<1>9. /\ Others \in Seq(Pid) /\ Len(Others) = N - 1 /\ Distinct(Others)
      /\ \A i \in 1..(N - 1) : i + 1 \in 1..N /\ Others[i] = ring[i + 1]
      /\ Misses(Others, c)
  BY <1>2, <1>5, OthersShape
<1>10. Others[j - 1] = next /\ j - 1 \in 1..Len(Others)
  BY <1>6, <1>7, <1>9
<1>11. PICK before, after \in Seq(Pid) : Around(Others, j - 1, before, after)
  <2> HIDE DEF Pid
  <2>1. \A s \in Seq(Pid) : \A i \in 1..Len(s) : \E a, b \in Seq(Pid) : Around(s, i, a, b)
    BY SplitAround, Zenon
  <2> QED BY <1>9, <1>10, <2>1, Zenon
<1>12. /\ Len(before) = j - 2 /\ Len(after) = N - j
       /\ \A m \in 1..(j - 2) : m \in 1..(N - 1) /\ before[m] = Others[m]
       /\ \A m \in 1..(N - j) : (j - 1) + m \in 1..(N - 1) /\ after[m] = Others[(j - 1) + m]
       /\ Others = (before \o <<next>>) \o after
  <2>1. (j - 1) - 1 = j - 2 /\ (N - 1) - (j - 1) = N - j
    BY <1>5, <1>6
  <2>2. /\ Len(before) = j - 2 /\ Len(after) = N - j
        /\ \A m \in 1..(j - 2) : before[m] = Others[m]
        /\ \A m \in 1..(N - j) : after[m] = Others[(j - 1) + m]
        /\ Others = (before \o <<next>>) \o after
    BY <1>9, <1>10, <1>11, <2>1, Zenon DEF Around
  <2>3. /\ \A m \in 1..(j - 2) : m \in 1..(N - 1)
        /\ \A m \in 1..(N - j) : (j - 1) + m \in 1..(N - 1)
    BY <1>5, <1>6
  <2> QED BY <2>2, <2>3
<1>13. Misses(before, c) /\ Misses(after, c) /\ Misses(before, next) /\ Misses(after, next)
  <2>1. Misses(before, c) /\ Misses(after, c)
    <3>1. \A m \in 1..(N - 1) : Others[m] # c
      BY <1>9 DEF Misses
    <3>2. \A m \in 1..(j - 2) : before[m] # c
      BY <1>12, <3>1
    <3>3. \A m \in 1..(N - j) : after[m] # c
      BY <1>12, <3>1
    <3> QED BY <1>12, <3>2, <3>3, Zenon DEF Misses
  <2>2. \A m \in 1..(j - 2) : m # j - 1
    BY <1>6
  <2>3. \A m \in 1..(N - j) : (j - 1) + m # j - 1
    BY <1>5, <1>6
  <2>4. \A m \in 1..(N - 1) : Others[m] = next => m = j - 1
    BY <1>9, <1>10 DEF Distinct
  <2>5. \A m \in 1..(j - 2) : before[m] # next
    BY <1>12, <2>2, <2>4
  <2>6. \A m \in 1..(N - j) : after[m] # next
    BY <1>12, <2>3, <2>4
  <2> QED BY <1>12, <2>1, <2>5, <2>6, Zenon DEF Misses
<1>14. ASSUME NEW m \in 1..(j - 2) PROVE before[m] \notin ReadyPids
  <2>1. m + 1 \in 2..Len(ring) /\ m + 1 < j
    BY <1>5, <1>6
  <2>2. m + 1 < k + 2 /\ k \in Nat
    <3>1. k \in Nat
      BY <1>3, SizeAssumption
    <3>2. CASE k + 1 < N
      <4>1. j = k + 2
        BY <1>4, <1>5, <3>1, <3>2, CandidateFirstRound
      <4> QED BY <2>1, <3>1, <4>1
    <3>3. CASE ~(k + 1 < N)
      BY <1>5, <1>6, <2>1, <3>1, <3>3
    <3> QED BY <3>1, <3>2, <3>3
  <2>3. Skipped(ring[m + 1])
    BY <1>2, <1>3, <2>1, <2>2, SearchedAre
  <2> QED BY <1>9, <1>12, <2>3 DEF Skipped, ReadyPids
<1>15. PICK one \in Seq(Pid), two \in Seq(Pid) : one = <<c>> /\ two = <<next>>
  <2> HIDE DEF Pid
  <2>1. <<c>> \in Seq(Pid) /\ <<next>> \in Seq(Pid)
    BY <1>2
  <2> QED BY <2>1, Zenon
<1>16. Others' = (after \o one) \o before
  BY <1>2, <1>3, <1>4, <1>5, <1>6, <1>11, <1>15, RotatedOthers
<1>17. \A R : \A p \in Pid : \A x, y, z \in Seq(Pid) :
         (y = <<p>> /\ Misses(x, p) /\ Misses(z, p)) => InParts(R, p, x, y, z)
  <2> HIDE DEF Pid
  <2> QED BY ChosenInParts, Zenon
<1>18. PICK b \in Seq(Pid) : b = Chosen(after, ReadyPids)
  <2> HIDE DEF Pid
  <2> QED BY ChosenType
<1> HIDE DEF Pid
<1>19. ReadyAfterCurrent' = Append(b, c)
  <2> DEFINE R == ReadyPids \ {next}
  <2>1. ReadyPids' = R \cup {c}
    BY <1>2, <1>3, <1>4, <1>7, <1>8 DEF ReadyPids, Pid
  <2>2. InParts(R, c, after, one, before)
    BY <1>2, <1>13, <1>15, <1>17, Zenon
  <2>3. Chosen(after, R) = b
    <3>1. \A m \in 1..Len(after) : after[m] \in R <=> after[m] \in ReadyPids
      BY <1>13 DEF Misses
    <3> QED BY <1>18, <3>1, ChosenSame
  <2>4. Chosen(before, R) = <<>>
    <3>1. \A m \in 1..Len(before) : before[m] \notin R
      BY <1>12, <1>14
    <3> QED BY <3>1, ChosenNone
  <2>5. ReadyAfterCurrent' = (b \o one) \o <<>>
    BY <1>16, <2>1, <2>2, <2>3, <2>4, Zenon DEF ReadyAfterCurrent, InParts
  <2>6. (b \o one) \o <<>> = b \o one
    <3>1. b \o one \in Seq(Pid)
      BY ConcatProperties
    <3> QED BY <3>1, ConcatEmptySeq
  <2>7. Append(b, c) = b \o <<c>>
    BY <1>2, AppendIsConcat
  <2> QED BY <1>15, <2>5, <2>6, <2>7, Zenon
<1>20. state[next] = READY => ReadyAfterCurrent = <<next>> \o b
  <2> HAVE state[next] = READY
  <2>1. ReadyPids \cup {next} = ReadyPids
    BY DEF ReadyPids
  <2>2. InParts(ReadyPids, next, before, two, after)
    BY <1>13, <1>15, <1>17, Zenon
  <2>3. Chosen(before, ReadyPids) = <<>>
    <3>1. \A m \in 1..Len(before) : before[m] \notin ReadyPids
      BY <1>12, <1>14
    <3> QED BY <3>1, ChosenNone
  <2>4. ReadyAfterCurrent = (<<>> \o two) \o b
    BY <1>12, <1>15, <1>18, <2>1, <2>2, <2>3, Zenon DEF ReadyAfterCurrent, InParts
  <2>5. <<>> \o two = two
    BY ConcatEmptySeq
  <2> QED BY <1>15, <2>4, <2>5, Zenon
<1>21. ReadyPids = {} => b = <<>> /\ ReadyAfterCurrent = <<>>
  <2> HAVE ReadyPids = {}
  <2>1. Chosen(after, ReadyPids) = <<>>
    <3>1. \A m \in 1..Len(after) : after[m] \notin ReadyPids
      OBVIOUS
    <3> QED BY <3>1, ChosenNone
  <2>2. Chosen(Others, ReadyPids) = <<>>
    <3>1. \A m \in 1..Len(Others) : Others[m] \notin ReadyPids
      OBVIOUS
    <3> QED BY <1>9, <3>1, ChosenNone
  <2> QED BY <1>18, <2>1, <2>2, Zenon DEF ReadyAfterCurrent
<1>22. state'[next] = RUNNING
  BY <1>2, <1>3, <1>4, <1>7, <1>8
<1> QED BY <1>7, <1>8, <1>19, <1>20, <1>21, <1>22, Zenon DEF SwitchedQueue

\* A switch gives the turn to the head of the queue, or, when nobody can run,
\* the processor to a withdrawn process.
LEMMA SwitchTurns ==
    ASSUME MaxPid <= MAX_PROCESSES + 1, RInv, TickSwitches
    PROVE  RR!TakeTurn \/ RR!Takeover
<1>1. RR!SliceEnds /\ IInv /\ ring # <<>> /\ current_process \in Pid
  BY QuantumEndsSlice DEF TickSwitches
<1>2. PICK next \in Pid, b \in Seq(Pid) :
        /\ next # current_process /\ state[next] # NONE /\ state'[next] = RUNNING
        /\ SwitchedQueue(next, b)
  BY SwitchQueue
<1>3. CurrentCanRun' = TRUE
  BY <1>2 DEF SwitchedQueue, CurrentCanRun, Skipped
<1>4. CASE state[next] = READY
  <2>1. ReadyAfterCurrent = <<next>> \o b
    BY <1>2, <1>4 DEF SwitchedQueue
  <2>2. ReadyAfterCurrent # <<>> /\ Head(ReadyAfterCurrent) = next /\ Tail(ReadyAfterCurrent) = b
    <3> HIDE DEF Pid
    <3>1. PICK q \in Seq(Pid) : q = <<next>> \o b
      <4>1. <<next>> \o b \in Seq(Pid)
        OBVIOUS
      <4> QED BY <4>1
    <3>2. Len(q) = Len(b) + 1 /\ q[1] = next /\ \A i \in 1..Len(b) : q[i + 1] = b[i]
      BY <3>1
    <3>3. q # <<>> /\ Head(q) = next
      BY <3>2
    <3>4. Tail(q) \in Seq(Pid) /\ Len(Tail(q)) = Len(b) /\ \A i \in 1..Len(b) : Tail(q)[i] = b[i]
      BY <3>2, <3>3
    <3>5. Tail(q) = b
      BY <3>4, SeqEqual
    <3> QED BY <2>1, <3>1, <3>3, <3>5, Zenon
  <2> QED BY <1>1, <1>2, <1>3, <2>2, Zenon DEF SwitchedQueue, RR!TakeTurn
<1>5. CASE state[next] # READY
  <2>1. SkipsUnlessIdle
    <3>1. [Next]_vars
      BY DEF Next, scheduler_tick
    <3> QED BY <1>1, <3>1, OnlyReadyStep
  <2>2. current_process' = next /\ current_process # NULL
    BY <1>1, <1>2 DEF SwitchedQueue
  <2>3. \A p \in Pid : state[p] \in {NONE, DEAD, BLOCKED}
    BY <1>2, <1>5, <2>1, <2>2 DEF SkipsUnlessIdle
  <2>4. ReadyPids = {}
    BY <2>3 DEF ReadyPids
  <2>5. ~CurrentCanRun
    <3>1. state[current_process] # NONE
      BY <1>1, CurrentProcess
    <3> QED BY <1>1, <2>3, <3>1 DEF CurrentCanRun, Skipped
  <2>6. ReadyAfterCurrent = <<>> /\ ReadyAfterCurrent' = <<current_process>>
    <3>1. ReadyAfterCurrent = <<>> /\ b = <<>> /\ ReadyAfterCurrent' = Append(b, current_process)
      BY <1>2, <2>4 DEF SwitchedQueue
    <3> QED BY <3>1
  <2>7. current_process' \in RR!Known \ {current_process}
    <3>1. ticks_quantum[next] >= QuantumUnit /\ ticks_quantum[next] \in Nat
      BY <1>1, <1>2 DEF IInv, QuantaPositive, TypeOK
    <3>2. ticks_quantum[next] # 0
      BY <3>1, QuantumAssumption
    <3> QED BY <1>2, <2>2, <3>2 DEF RR!Known
  <2> QED BY <1>1, <1>3, <2>5, <2>6, <2>7, Zenon DEF RR!Takeover
<1> QED BY <1>4, <1>5

\* Every step of the scheduler is one of the round robin, or one it does not
\* see.
LEMMA StepIsRoundRobin ==
    ASSUME MaxPid <= MAX_PROCESSES + 1, RInv, [Next]_vars
    PROVE  [RR!Next]_RR!rrVars
<1>1. ASSUME NEW n \in Priorities, process_create(n) PROVE RR!Next
  <2>1. RR!Admit(next_pid, n * QuantumUnit)
    BY <1>1, CreateAdmits
  <2>2. next_pid \in Pid /\ n * QuantumUnit \in {m * QuantumUnit : m \in Priorities}
    BY <1>1, SizeAssumption DEF process_create, RInv, IInv, TypeOK, next_pid
  <2> QED BY <2>1, <2>2, Zenon DEF RR!Next
<1>2. ASSUME process_exit PROVE RR!Next
  BY <1>2, ExitQuits, Zenon DEF RR!Next
<1>3. ASSUME NEW p \in Pid, process_block(p) PROVE [RR!Next]_RR!rrVars
  BY <1>3, BlockWithdraws, Zenon DEF RR!Next
<1>4. ASSUME NEW p \in Pid, process_unblock(p) PROVE [RR!Next]_RR!rrVars
  BY <1>4, UnblockReturns, Zenon DEF RR!Next
<1>5. ASSUME scheduler_start PROVE RR!Next
  BY <1>5, StartStarts, Zenon DEF RR!Next
<1>6. ASSUME scheduler_tick PROVE RR!Next
  BY <1>6, InQuantumCounts, KeepsTurn, SwitchTurns, Zenon DEF scheduler_tick, RR!Next, RR!TickOnce
<1>7. ASSUME Advance \/ LoadFirst \/ UNCHANGED vars PROVE UNCHANGED RR!rrVars
  <2>1. UNCHANGED <<ring, state, ticks_quantum, tick_count, scheduler_running>>
    BY <1>7 DEF Advance, LoadFirst, vars
  <2>2. UNCHANGED <<current_process, CurrentCanRun, ReadyAfterCurrent, ticks_quantum>>
    BY <2>1, NothingSeen
  <2> QED BY <2>1, <2>2 DEF RR!rrVars
<1> QED BY <1>1, <1>2, <1>3, <1>4, <1>5, <1>6, <1>7 DEF Next

LEMMA InitIsRoundRobin == Init => RR!Init
<1> SUFFICES ASSUME Init PROVE RR!Init
  OBVIOUS
<1>1. ring = <<>>
  BY DEF Init
<1>2. ReadyAfterCurrent = <<>> /\ current_process = NULL /\ CurrentCanRun = TRUE
  BY <1>1, NoOthers DEF current_process, CurrentCanRun
<1>3. /\ ticks_quantum = [p \in Pid |-> 0] /\ tick_count = 0
      /\ scheduler_running = FALSE
  BY DEF Init
<1> QED BY <1>2, <1>3 DEF RR!Init

\* The scheduler is a FIFO round robin with slices of each process's own
\* length, whatever the number of processes, the priorities and the order in
\* which processes are created, blocked, unblocked and exit: the safety half
\* of ImplementsRoundRobin.  The list may hold one process more than
\* MAX_PROCESSES.
THEOREM SchedulerIsRoundRobin ==
    ASSUME MaxPid <= MAX_PROCESSES + 1
    PROVE  Spec => RR!Safety
<1>1. RInv /\ [Next]_vars => [RR!Next]_RR!rrVars
  BY StepIsRoundRobin
<1> QED BY <1>1, InitRInv, NextRInv, InitIsRoundRobin, PTL DEF Spec, RR!Safety
=============================================================================
