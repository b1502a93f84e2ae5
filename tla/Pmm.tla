--------------------------------- MODULE Pmm ---------------------------------
(***************************************************************************)
(* The physical memory manager of pmm.c: a bitmap of frames and a counter  *)
(* of the used ones.  "free" is the set of frames whose bit is clear.      *)
(* Addresses are counted in frames; frame 0 and the null pointer are the   *)
(* same value, as in the code.                                             *)
(***************************************************************************)
EXTENDS Integers, FiniteSets, FiniteSetsExt

CONSTANTS
    PMM_FRAMES_MAX,     \* frames the bitmap has bits for (8192)
    StartFrame          \* PMM_START_ADDR / PMM_FRAME_SIZE (8)

ASSUME PmmAssumption ==
    /\ PMM_FRAMES_MAX \in Nat
    /\ StartFrame \in Nat \ {0} /\ StartFrame < PMM_FRAMES_MAX

VARIABLES
    free,               \* frames whose bit in pmm_bitmap is 0
    used_frames,
    total_frames,
    held,               \* frames handed out to callers and not given back
    short               \* whether a self-test ever got fewer than three frames

pmmVars == <<free, used_frames, total_frames, held, short>>

NoFrame == 0
Frames == 0..(PMM_FRAMES_MAX - 1)

pmm_init(mem) ==
    LET end_frame == Min({mem, PMM_FRAMES_MAX}) IN
    /\ total_frames = mem
    /\ free = StartFrame..(end_frame - 1)
    /\ used_frames = mem - Cardinality(StartFrame..(end_frame - 1))
    /\ held = {} /\ short = FALSE

\* Mutants: the bit of an allocated frame is not set; the counter only counts up.
Alloc_BitLeftClear(m) ==
    IF m.used >= total_frames \/ m.free = {}
    THEN [m EXCEPT !.frame = NoFrame]
    ELSE [m EXCEPT !.used = @ + 1, !.frame = Min(m.free)]

Free_NotCounted(m, frame) == [m EXCEPT !.free = @ \cup {frame}]

\* The effect of pmm_alloc_frame and pmm_free_frame on the bitmap and the
\* counter; "frame" is what the last pmm_alloc_frame returned.
Alloc(m) ==
    IF m.used >= total_frames \/ m.free = {}
    THEN [m EXCEPT !.frame = NoFrame]
    ELSE [free |-> m.free \ {Min(m.free)}, used |-> m.used + 1,
          frame |-> Min(m.free)]

Free(m, frame) ==
    [m EXCEPT !.free = @ \cup {frame}, !.used = IF @ > 0 THEN @ - 1 ELSE @]

Now == [free |-> free, used |-> used_frames, frame |-> NoFrame]
Becomes(m) == free' = m.free /\ used_frames' = m.used /\ UNCHANGED total_frames

pmm_alloc_frame ==
    /\ Becomes(Alloc(Now))
    /\ held' = held \cup ({Alloc(Now).frame} \ {NoFrame})
    /\ UNCHANGED short

\* The caller gives back a frame it was handed out.
pmm_free_frame(frame) ==
    /\ frame \in held
    /\ Becomes(Free(Now, frame))
    /\ held' = held \ {frame}
    /\ UNCHANGED short

\* The self-test: three frames are allocated and given back, null or not.  A null
\* pointer given back is frame 0.
pmm_print_info ==
    /\ LET m1 == Alloc(Now)
           m2 == Alloc(m1)
           m3 == Alloc(m2)
       IN  /\ Becomes(Free(Free(Free(m3, m1.frame), m2.frame), m3.frame))
           /\ short' = (short \/ m3.frame = NoFrame)
    /\ UNCHANGED held

PmmNext ==
    \/ pmm_alloc_frame
    \/ \E frame \in Frames : pmm_free_frame(frame)
    \/ pmm_print_info

\* On any machine; Memory has those that TLC looks at.
PmmSpec == (\E mem \in Nat : pmm_init(mem)) /\ [][PmmNext]_pmmVars

-----------------------------------------------------------------------------
\* Type invariant of the manager's variables.
PmmTypeOK ==
    /\ free \subseteq Frames /\ held \subseteq Frames
    /\ used_frames \in Nat /\ total_frames \in Nat /\ short \in BOOLEAN

Managed == StartFrame..(Min({total_frames, PMM_FRAMES_MAX}) - 1)

\* The counter and the bitmap agree, also on machines with more memory than the
\* bitmap describes or less than the kernel needs: pmm_get_free_frames is the
\* number of frames that can still be allocated, until a self-test runs short of
\* frames and gives back null pointers.  The counter is too low from then on,
\* never too high: it stops no request as long as a frame of the managed zone is
\* free (pmm.c 30-43, 75-97, 160-162).
CounterExact ==
    /\ ~short => NoFrame \notin free /\ used_frames = total_frames - Cardinality(free)
    /\ used_frames <= total_frames - Cardinality(free \ {NoFrame})

\* A frame in use is not handed out again, and after any sequence of calls
\* every frame of the managed zone is either free or held by one caller, also
\* when self-tests have made frame 0 a free one of the bitmap: whoever is given
\* it has a null pointer (pmm.c 49-92, 140-162).
NoFrameLostOrShared ==
    /\ free \cap held = {}
    /\ (free \ {NoFrame}) \cup held = Managed
=============================================================================
