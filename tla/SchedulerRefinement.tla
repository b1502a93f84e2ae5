------------------------- MODULE SchedulerRefinement -------------------------
(***************************************************************************)
(* The scheduler of scheduler.c implements RoundRobin: current_process is  *)
(* the holder, and the READY processes met when following "next" from it   *)
(* are the queue.                                                          *)
(***************************************************************************)
EXTENDS Scheduler

\* The elements of s that are in R, in the order they have in s.
Chosen(s, R) ==
    LET upto[n \in 0..Len(s)] ==
          IF n = 0 THEN <<>>
          ELSE IF s[n] \in R THEN Append(upto[n - 1], s[n]) ELSE upto[n - 1]
    IN  upto[Len(s)]

Others == SubSeq(ring, 2, Len(ring))
ReadyPids == {p \in Pid : state[p] = READY}
ReadyAfterCurrent == Chosen(Others, ReadyPids)

CurrentCanRun == ring # <<>> => ~Skipped(current_process)

RR == INSTANCE RoundRobin WITH
        Proc   <- Pid,
        None   <- NULL,
        Slices <- {n * QuantumUnit : n \in Priorities},
        holder <- current_process,
        wants  <- CurrentCanRun,
        queue  <- ReadyAfterCurrent,
        slice  <- ticks_quantum,
        used   <- tick_count,
        on     <- scheduler_running

\* Every behaviour of the scheduler, with creations, exits, blocking and
\* unblocking at any moment, is one of a FIFO round robin with per-process
\* slices, and ticks keep being served as the abstract specification promises
\* (scheduler_tick, process_create, process_exit, process_block).
ImplementsRoundRobin == RR!Spec
=============================================================================
