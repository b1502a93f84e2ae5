----------------------------- MODULE RoundRobin -----------------------------
(***************************************************************************)
(* What the scheduler of Learnix promises, without PCBs, lists or saved    *)
(* contexts: one process holds the processor for a slice of ticks of its   *)
(* own length, the processes that can run wait in a FIFO queue, and only   *)
(* when nobody can run may a withdrawn process be given the processor.     *)
(***************************************************************************)
EXTENDS Integers, SequencesExt

CONSTANTS
    Proc,       \* processes
    None,       \* not a process
    Slices      \* the positive slice lengths in use

VARIABLES
    holder,     \* the process that has the processor, None at first
    wants,      \* the holder can still use the processor
    queue,      \* the others that can run, in the order they will
    slice,      \* the ticks a process may hold the processor, 0: unknown process
    used,       \* the ticks of its slice the holder has used
    on          \* ticks are being counted

rrVars == <<holder, wants, queue, slice, used, on>>

Known == {p \in Proc : slice[p] # 0}
Waiting == ToSet(queue)

Init ==
    /\ holder = None /\ wants = TRUE
    /\ queue = <<>>
    /\ slice = [p \in Proc |-> 0]
    /\ used = 0
    /\ on = FALSE

Admit(p, n) ==
    /\ p \notin Known
    /\ slice' = [slice EXCEPT ![p] = n]
    /\ IF holder = None THEN holder' = p /\ queue' = queue
                        ELSE holder' = holder /\ queue' = Append(queue, p)
    /\ UNCHANGED <<wants, used, on>>

Withdraw(p) ==
    /\ \E i \in DOMAIN queue : queue[i] = p /\ queue' = RemoveAt(queue, i)
    /\ UNCHANGED <<holder, wants, slice, used, on>>

\* A withdrawn process comes back at the place it has on the circular list.
Return(p) ==
    /\ p \in Known \ (Waiting \cup {holder})
    /\ \E i \in 1..(Len(queue) + 1) : queue' = InsertAt(queue, i, p)
    /\ UNCHANGED <<holder, wants, slice, used, on>>

Quit   == holder # None /\ wants' = FALSE /\ UNCHANGED <<holder, queue, slice, used, on>>
Resume == holder # None /\ wants' = TRUE  /\ UNCHANGED <<holder, queue, slice, used, on>>

Start ==
    /\ holder # None
    /\ on' = TRUE
    /\ UNCHANGED <<holder, wants, queue, slice, used>>

Count ==
    /\ on /\ used + 1 < slice[holder]
    /\ used' = used + 1
    /\ UNCHANGED <<holder, wants, queue, slice, on>>

SliceEnds == on /\ used + 1 = slice[holder] /\ used' = 0 /\ UNCHANGED <<slice, on>>

TakeTurn ==
    /\ SliceEnds
    /\ queue # <<>>
    /\ holder' = Head(queue)
    /\ queue' = Append(Tail(queue), holder)
    /\ wants' = TRUE

KeepTurn == SliceEnds /\ queue = <<>> /\ UNCHANGED <<holder, queue, wants>>

\* Nobody can run: a withdrawn process gets the processor.
Takeover ==
    /\ SliceEnds
    /\ queue = <<>> /\ ~wants
    /\ holder' \in Known \ {holder}
    /\ queue' = <<holder>>
    /\ wants' = TRUE

TickOnce == Count \/ TakeTurn \/ KeepTurn \/ Takeover

Next ==
    \/ \E p \in Proc, n \in Slices : Admit(p, n)
    \/ \E p \in Proc : Withdraw(p) \/ Return(p)
    \/ Quit \/ Resume \/ Start
    \/ TickOnce

Safety == Init /\ [][Next]_rrVars
Spec == Safety /\ WF_rrVars(TickOnce)
=============================================================================
