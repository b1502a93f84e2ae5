---------------------------- MODULE MemoryProofs ----------------------------
(***************************************************************************)
(* Machine-checked proofs about Pmm and Memory, for every size of bitmap,  *)
(* first frame and size of memory: the invariant of the frame manager;     *)
(* that it and the invariant of the heap hold when the calls of both are   *)
(* mixed; and that the frames handed out exist on every machine.           *)
(***************************************************************************)
EXTENDS Memory, HeapProofs, LeastNumber, FiniteSetTheorems

-----------------------------------------------------------------------------
(* One call, on any bitmap that agrees with the counter.                   *)

Bitmap == [free : SUBSET Nat, used : Nat, frame : Nat]

\* The counter tells how many bits are set.
Agrees(m) == IsFiniteSet(m.free) /\ m.used = total_frames - Cardinality(m.free)

\* While a bit is clear the counter is below the total, so that the search is
\* made, and it finds a free frame.
LEMMA AllocTakesOne ==
    ASSUME total_frames \in Nat, NEW m \in Bitmap, Agrees(m), m.free # {}
    PROVE  /\ Alloc(m) \in Bitmap /\ Agrees(Alloc(m))
           /\ Alloc(m).frame \in m.free
           /\ Alloc(m).free = m.free \ {Alloc(m).frame}
           /\ Alloc(m).used = m.used + 1
           /\ Cardinality(Alloc(m).free) = Cardinality(m.free) - 1
<1>1. m.free \in SUBSET Nat /\ m.used \in Nat /\ IsFiniteSet(m.free)
      /\ m.used = total_frames - Cardinality(m.free)
  BY DEF Bitmap, Agrees
<1>2. Cardinality(m.free) \in Nat /\ Cardinality(m.free) # 0
  BY <1>1, FS_CardinalityType, FS_EmptySet
<1>3. ~(m.used >= total_frames)
  BY <1>1, <1>2
<1>4. PICK f \in m.free : f = Min(m.free)
  BY <1>1, MinIsMember
<1>5. Alloc(m) = [free |-> m.free \ {f}, used |-> m.used + 1, frame |-> f]
  BY <1>3, <1>4 DEF Alloc
<1>6. /\ IsFiniteSet(m.free \ {f})
      /\ Cardinality(m.free \ {f}) = Cardinality(m.free) - 1
  BY <1>1, FS_RemoveElement
<1>7. Alloc(m).free = m.free \ {f} /\ Alloc(m).used = m.used + 1 /\ Alloc(m).frame = f
  BY <1>5
<1>8. Alloc(m) \in Bitmap
  BY <1>1, <1>5 DEF Bitmap
<1>9. Agrees(Alloc(m))
  BY <1>1, <1>2, <1>6, <1>7 DEF Agrees
<1> QED BY <1>6, <1>7, <1>8, <1>9

\* With no bit clear, the answer is the null pointer.
LEMMA AllocFindsNone ==
    ASSUME NEW m \in Bitmap, m.free = {}
    PROVE  /\ Alloc(m).frame = NoFrame
           /\ Alloc(m).free = m.free /\ Alloc(m).used = m.used
  BY DEF Alloc, Bitmap

\* Giving back a frame that is not free undoes it.
LEMMA FreeReturnsOne ==
    ASSUME NEW m \in Bitmap, NEW f \in Nat, m.used # 0
    PROVE  /\ Free(m, f) \in Bitmap
           /\ Free(m, f).free = m.free \cup {f}
           /\ Free(m, f).used = m.used - 1
<1>1. m.free \in SUBSET Nat /\ m.used \in Nat /\ m.used > 0 /\ m.frame \in Nat
  BY DEF Bitmap
<1>2. Free(m, f) = [m EXCEPT !.free = m.free \cup {f}, !.used = m.used - 1]
  BY <1>1 DEF Free
<1>3. m.used - 1 \in Nat /\ m.free \cup {f} \in SUBSET Nat
  BY <1>1
<1> QED BY <1>2, <1>3 DEF Bitmap

-----------------------------------------------------------------------------
(* The frames the bitmap manages, and frame 0.                             *)

LEMMA ManagedFacts ==
    ASSUME total_frames \in Nat
    PROVE  /\ Managed \subseteq Frames /\ 0 \notin Managed
           /\ IsFiniteSet(Managed) /\ Cardinality(Managed) \in Nat
           /\ Cardinality(Managed) <= total_frames
           /\ total_frames = 0 => Managed = {}
           /\ total_frames # 0 => Cardinality(Managed) < total_frames
<1>1. PICK e : e = Min({total_frames, PMM_FRAMES_MAX})
  OBVIOUS
<1>2. PMM_FRAMES_MAX \in Nat /\ StartFrame \in Nat \ {0}
  BY PmmAssumption
<1>3. e \in Nat /\ e <= total_frames /\ e <= PMM_FRAMES_MAX
  BY <1>1, <1>2, MinIsMember
<1>4. Managed = StartFrame..(e - 1)
  BY <1>1 DEF Managed
<1>5. /\ IsFiniteSet(StartFrame..(e - 1))
      /\ Cardinality(StartFrame..(e - 1))
           = IF StartFrame > e - 1 THEN 0 ELSE (e - 1) - StartFrame + 1
  <2>1. e - 1 \in Int
    BY <1>3
  <2> QED BY <1>2, <2>1, FS_Interval
<1> QED BY <1>2, <1>3, <1>4, <1>5 DEF Frames

\* A bitmap with no bits clear but those of managed frames and of frame 0, and
\* a counter that is at most too low.
Sound(m) ==
    /\ m \in Bitmap
    /\ m.free \subseteq Managed \cup {0}
    /\ IF total_frames = 0 THEN m.used = 0
                           ELSE m.used + Cardinality(m.free) <= total_frames

LEMMA SoundFacts ==
    ASSUME total_frames \in Nat, NEW m, Sound(m)
    PROVE  /\ m.free \in SUBSET Nat /\ m.used \in Nat
           /\ IsFiniteSet(m.free) /\ Cardinality(m.free) \in Nat
<1>1. m.free \in SUBSET Nat /\ m.used \in Nat /\ m.free \subseteq Managed \cup {0}
  BY DEF Sound, Bitmap
<1>2. IsFiniteSet(Managed \cup {0})
  BY ManagedFacts, FS_AddElement
<1> QED BY <1>1, <1>2, FS_Subset, FS_CardinalityType

\* Allocating takes a frame of the bitmap, or hands out the null pointer; then
\* frame 0 may have been taken.
LEMMA AllocKeepsSound ==
    ASSUME total_frames \in Nat, NEW m, Sound(m)
    PROVE  /\ Sound(Alloc(m))
           /\ Alloc(m).free \cup {Alloc(m).frame, 0} = m.free \cup {0}
           /\ Alloc(m).frame = 0 \/ Alloc(m).frame \notin Alloc(m).free
           /\ Alloc(m).frame \in Managed \cup {0}
<1>1. /\ m \in Bitmap /\ m.free \in SUBSET Nat /\ m.used \in Nat
      /\ m.free \subseteq Managed \cup {0} /\ IsFiniteSet(m.free)
      /\ Cardinality(m.free) \in Nat
  BY SoundFacts DEF Sound
<1>2. CASE m.used >= total_frames \/ m.free = {}
  <2>1. Alloc(m) = [m EXCEPT !.frame = 0]
    BY <1>2 DEF Alloc, NoFrame
  <2>2. Alloc(m) \in Bitmap /\ Alloc(m).free = m.free /\ Alloc(m).used = m.used
        /\ Alloc(m).frame = 0
    BY <1>1, <2>1 DEF Bitmap
  <2> QED BY <2>2 DEF Sound
<1>3. CASE m.used < total_frames /\ m.free # {}
  <2>1. PICK f \in m.free : f = Min(m.free)
    BY <1>1, <1>3, MinIsMember
  <2>2. Alloc(m) = [free |-> m.free \ {f}, used |-> m.used + 1, frame |-> f]
    BY <1>1, <1>3, <2>1 DEF Alloc
  <2>3. Alloc(m) \in Bitmap /\ Alloc(m).free = m.free \ {f}
        /\ Alloc(m).used = m.used + 1 /\ Alloc(m).frame = f
    BY <1>1, <2>2 DEF Bitmap
  <2>4. Cardinality(m.free \ {f}) = Cardinality(m.free) - 1
    BY <1>1, FS_RemoveElement
  <2>5. total_frames # 0 /\ m.used + Cardinality(m.free) <= total_frames
    BY <1>1, <1>3 DEF Sound
  <2>6. Sound(Alloc(m))
    BY <1>1, <2>3, <2>4, <2>5 DEF Sound
  <2> QED BY <1>1, <2>3, <2>6
<1> QED BY <1>1, <1>2, <1>3

\* Giving back a frame, or a null pointer, clears its bit.
LEMMA FreeKeepsSound ==
    ASSUME total_frames \in Nat, NEW m, Sound(m), NEW f \in Managed \cup {0}
    PROVE  Sound(Free(m, f)) /\ Free(m, f).free = m.free \cup {f}
<1>1. /\ m \in Bitmap /\ m.free \in SUBSET Nat /\ m.used \in Nat /\ m.frame \in Nat
      /\ m.free \subseteq Managed \cup {0} /\ IsFiniteSet(m.free)
      /\ Cardinality(m.free) \in Nat
  BY SoundFacts DEF Sound, Bitmap
<1>2. f \in Nat
  BY ManagedFacts DEF Frames
<1>3. PICK u : u = IF m.used > 0 THEN m.used - 1 ELSE m.used
  OBVIOUS
<1>4. u \in Nat /\ Free(m, f) = [m EXCEPT !.free = m.free \cup {f}, !.used = u]
  BY <1>1, <1>3 DEF Free
<1>5. Free(m, f) \in Bitmap /\ Free(m, f).free = m.free \cup {f} /\ Free(m, f).used = u
  BY <1>1, <1>2, <1>4 DEF Bitmap
<1>6. PICK c \in Nat : c = Cardinality(m.free \cup {f}) /\ c <= Cardinality(m.free) + 1
  <2>1. Cardinality(m.free \cup {f}) \in Nat
    BY <1>1, FS_AddElement, FS_CardinalityType
  <2>2. Cardinality(m.free \cup {f}) <= Cardinality(m.free) + 1
    BY <1>1, FS_AddElement
  <2> QED BY <2>1, <2>2
<1>7. ASSUME total_frames # 0 PROVE c <= total_frames
  <2>1. /\ IsFiniteSet(Managed) /\ Cardinality(Managed) \in Nat
        /\ Cardinality(Managed) + 1 <= total_frames
    BY <1>7, ManagedFacts
  <2>2. IsFiniteSet(Managed \cup {0}) /\ Cardinality(Managed \cup {0}) <= Cardinality(Managed) + 1
        /\ Cardinality(Managed \cup {0}) \in Nat
    BY <2>1, FS_AddElement, FS_CardinalityType
  <2>3. Cardinality(m.free \cup {f}) <= Cardinality(Managed \cup {0})
    BY <1>1, <2>2, FS_Subset
  <2> QED BY <1>6, <2>1, <2>2, <2>3
<1>8. IF total_frames = 0 THEN u = 0 ELSE u + c <= total_frames
  <2>1. IF total_frames = 0 THEN m.used = 0 ELSE m.used + Cardinality(m.free) <= total_frames
    BY DEF Sound
  <2> QED BY <1>1, <1>3, <1>6, <1>7, <2>1
<1> QED BY <1>1, <1>5, <1>6, <1>8 DEF Sound

-----------------------------------------------------------------------------
(* The inductive invariant.                                                *)

PmmInv == PmmTypeOK /\ Sound(Now) /\ CounterExact /\ NoFrameLostOrShared

\* Sound bitmaps give back what CounterExact says of the counter.
LEMMA SoundCounts ==
    ASSUME total_frames \in Nat, NEW m, Sound(m)
    PROVE  m.used <= total_frames - Cardinality(m.free \ {NoFrame})
<1>1. /\ m.used \in Nat /\ IsFiniteSet(m.free) /\ Cardinality(m.free) \in Nat
      /\ m.free \subseteq Managed \cup {0}
      /\ IF total_frames = 0 THEN m.used = 0
                             ELSE m.used + Cardinality(m.free) <= total_frames
  BY SoundFacts DEF Sound
<1>2. PICK c \in Nat : c = Cardinality(m.free \ {NoFrame}) /\ c <= Cardinality(m.free)
  BY <1>1, FS_Subset, FS_CardinalityType
<1>3. CASE total_frames = 0
  <2>1. m.free \ {NoFrame} = {}
    BY <1>1, <1>3, ManagedFacts DEF NoFrame
  <2>2. m.used = 0
    BY <1>1, <1>3
  <2>3. Cardinality(m.free \ {NoFrame}) = 0
    BY <2>1, FS_EmptySet
  <2> QED BY <1>3, <2>2, <2>3
<1> QED BY <1>1, <1>2, <1>3

LEMMA PmmInitially == ASSUME NEW mem \in Nat, pmm_init(mem) PROVE PmmInv
<1>1. /\ total_frames = mem /\ free = Managed /\ held = {} /\ short = FALSE
      /\ used_frames = mem - Cardinality(Managed)
  BY DEF pmm_init, Managed
<1>2. /\ Managed \subseteq Frames /\ 0 \notin Managed
      /\ Cardinality(Managed) \in Nat /\ Cardinality(Managed) <= total_frames
      /\ total_frames = 0 => Managed = {}
  BY <1>1, ManagedFacts
<1>3. PmmTypeOK
  <2>1. used_frames \in Nat /\ total_frames \in Nat
    BY <1>1, <1>2
  <2>2. short \in BOOLEAN /\ free \subseteq Frames /\ held \subseteq Frames
    BY <1>1, <1>2
  <2> QED BY <2>1, <2>2 DEF PmmTypeOK
<1>4. Sound(Now)
  <2>1. Now.free = Managed /\ Now.used = used_frames /\ Now \in Bitmap
    BY <1>1, <1>2, <1>3 DEF Now, Bitmap, NoFrame, PmmTypeOK, Frames
  <2>2. total_frames = 0 => used_frames = 0
    BY <1>1, <1>2
  <2> QED BY <1>1, <1>2, <2>1, <2>2 DEF Sound
<1>5. CounterExact
  <2>1. Now.free = free /\ Now.used = used_frames
    BY DEF Now
  <2> QED BY <1>1, <1>2, <1>4, <2>1, SoundCounts DEF CounterExact, NoFrame
<1>6. NoFrameLostOrShared
  BY <1>1, <1>2 DEF NoFrameLostOrShared, NoFrame
<1> QED BY <1>3, <1>4, <1>5, <1>6 DEF PmmInv

LEMMA FreeFacts ==
    ASSUME PmmInv
    PROVE  /\ total_frames \in Nat /\ used_frames \in Nat /\ short \in BOOLEAN
           /\ free \in SUBSET Nat /\ IsFiniteSet(free)
           /\ Cardinality(free) \in Nat
           /\ free \cap held = {} /\ (free \ {0}) \cup held = Managed
           /\ ~short => 0 \notin free /\ used_frames = total_frames - Cardinality(free)
           /\ Sound(Now) /\ Now.free = free /\ Now.used = used_frames
<1>1. Sound(Now) /\ Now.free = free /\ Now.used = used_frames /\ total_frames \in Nat
  BY DEF PmmInv, PmmTypeOK, Now
<1> QED BY <1>1, SoundFacts
        DEF PmmInv, PmmTypeOK, CounterExact, NoFrameLostOrShared, NoFrame

\* Until a self-test is short of frames the counter tells how many bits are set.
LEMMA NowAgrees ==
    ASSUME PmmInv, ~short
    PROVE  Now \in Bitmap /\ Agrees(Now)
  BY FreeFacts DEF Agrees, Sound

\* What a step has to establish about the bitmap and the frames held.
LEMMA PmmInvFrom ==
    ASSUME PmmInv, NEW m, Sound(m), Becomes(m),
           short' \in BOOLEAN,
           ~short' => /\ 0 \notin free'
                      /\ used_frames' = total_frames - Cardinality(free'),
           free' \cap held' = {}, (free' \ {0}) \cup held' = (free \ {0}) \cup held
    PROVE  PmmInv'
<1>1. /\ total_frames \in Nat /\ (free \ {0}) \cup held = Managed
      /\ free' = m.free /\ used_frames' = m.used /\ total_frames' = total_frames
  BY FreeFacts DEF Becomes
<1>2. Managed \subseteq Frames /\ Managed' = Managed /\ 0 \in Frames
  <2>1. Managed' = Managed
    BY <1>1 DEF Managed
  <2>2. 0 \in Frames
    BY PmmAssumption DEF Frames
  <2> QED BY <1>1, <2>1, <2>2, ManagedFacts
<1>3. m.used \in Nat /\ m.free \subseteq Managed \cup {0} /\ m.free \in SUBSET Nat
  BY <1>1, SoundFacts DEF Sound
<1>4. PmmTypeOK'
  BY <1>1, <1>2, <1>3 DEF PmmTypeOK, Frames
<1>5. Sound(Now)'
  <2>1. Now' = [free |-> m.free, used |-> m.used, frame |-> 0]
    BY <1>1 DEF Now, NoFrame
  <2> QED BY <1>1, <1>2, <1>3, <2>1 DEF Sound, Bitmap
<1>6. CounterExact'
  BY <1>1, SoundCounts DEF CounterExact, NoFrame
<1>7. NoFrameLostOrShared'
  BY <1>1, <1>2 DEF NoFrameLostOrShared, NoFrame
<1> QED BY <1>4, <1>5, <1>6, <1>7 DEF PmmInv

LEMMA AllocKeeps == PmmInv /\ pmm_alloc_frame => PmmInv'
<1> SUFFICES ASSUME PmmInv, pmm_alloc_frame PROVE PmmInv'
  OBVIOUS
<1>1. /\ total_frames \in Nat /\ free \cap held = {} /\ short \in BOOLEAN
      /\ Sound(Now) /\ Now.free = free /\ Now.used = used_frames
      /\ (free \ {0}) \cup held = Managed /\ 0 \notin Managed
      /\ ~short => 0 \notin free /\ used_frames = total_frames - Cardinality(free)
  BY FreeFacts, ManagedFacts
<1>2. PICK m : m = Alloc(Now)
  OBVIOUS
<1>3. /\ Sound(m) /\ m.free \cup {m.frame, 0} = free \cup {0}
      /\ m.frame = 0 \/ m.frame \notin m.free
  BY <1>1, <1>2, AllocKeepsSound
<1>4. /\ Becomes(m) /\ free' = m.free /\ used_frames' = m.used
      /\ held' = held \cup ({m.frame} \ {0}) /\ short' = short
  BY <1>2 DEF pmm_alloc_frame, Becomes, NoFrame
<1>5. ~short => 0 \notin free' /\ used_frames' = total_frames - Cardinality(free')
  <2>1. CASE ~short /\ free = {}
    <3>1. m.free = free /\ m.used = used_frames
      BY <1>1, <1>2, <2>1, NowAgrees, AllocFindsNone
    <3> QED BY <1>1, <1>4, <3>1
  <2>2. CASE ~short /\ free # {}
    <3>1. Agrees(m) /\ m.free \subseteq free
      BY <1>1, <1>2, <2>2, NowAgrees, AllocTakesOne
    <3> QED BY <1>1, <1>4, <2>2, <3>1 DEF Agrees
  <2> QED BY <2>1, <2>2
<1>6. free' \cap held' = {} /\ (free' \ {0}) \cup held' = (free \ {0}) \cup held
  BY <1>1, <1>3, <1>4
<1> QED BY <1>1, <1>3, <1>4, <1>5, <1>6, PmmInvFrom

LEMMA FreeKeeps == ASSUME PmmInv, NEW frame \in Frames, pmm_free_frame(frame) PROVE PmmInv'
<1>1. /\ total_frames \in Nat /\ used_frames \in Nat /\ short \in BOOLEAN
      /\ IsFiniteSet(free) /\ Cardinality(free) \in Nat
      /\ Sound(Now) /\ Now.free = free /\ Now.used = used_frames
      /\ free \cap held = {} /\ (free \ {0}) \cup held = Managed /\ 0 \notin Managed
      /\ ~short => 0 \notin free /\ used_frames = total_frames - Cardinality(free)
  BY FreeFacts, ManagedFacts
<1>2. frame \in held /\ frame \notin free /\ frame \in Managed /\ held' = held \ {frame}
      /\ short' = short
  BY <1>1 DEF pmm_free_frame
<1>3. PICK m : m = Free(Now, frame)
  OBVIOUS
<1>4. Sound(m) /\ m.free = free \cup {frame}
  BY <1>1, <1>2, <1>3, FreeKeepsSound
<1>5. Becomes(m) /\ free' = free \cup {frame} /\ used_frames' = m.used
  BY <1>3, <1>4 DEF pmm_free_frame, Becomes
\* A frame is held, so not all frames are free: an exact counter is positive.
<1>6. ASSUME ~short PROVE used_frames' = total_frames - Cardinality(free')
  <2>1. /\ IsFiniteSet(free \cup {frame})
        /\ Cardinality(free \cup {frame}) = Cardinality(free) + 1
    BY <1>1, <1>2, FS_AddElement
  <2>2. free \cup {frame} \subseteq Managed
    BY <1>1, <1>2, <1>6
  <2>3. IsFiniteSet(Managed) /\ Cardinality(Managed) \in Nat /\ Cardinality(Managed) <= total_frames
    BY <1>1, ManagedFacts
  <2>4. Cardinality(free \cup {frame}) <= Cardinality(Managed)
    BY <2>2, <2>3, FS_Subset
  <2>5. used_frames # 0
    BY <1>1, <1>6, <2>1, <2>3, <2>4
  <2>6. m.used = used_frames - 1
    <3>1. Now \in Bitmap /\ frame \in Nat
      BY <1>1 DEF Sound, Frames
    <3> QED BY <1>1, <1>3, <2>5, <3>1, FreeReturnsOne
  <2> QED BY <1>1, <1>5, <1>6, <2>1, <2>6
<1>7. ~short' => 0 \notin free' /\ used_frames' = total_frames - Cardinality(free')
  BY <1>1, <1>2, <1>5, <1>6
<1>8. free' \cap held' = {} /\ (free' \ {0}) \cup held' = (free \ {0}) \cup held
  BY <1>1, <1>2, <1>5
<1> QED BY <1>1, <1>2, <1>4, <1>5, <1>7, <1>8, PmmInvFrom

\* A self-test that gets three frames gives back what it took.
LEMMA SelfTestRestores ==
    ASSUME PmmInv, ~short, Alloc(Alloc(Alloc(Now))).frame # NoFrame, pmm_print_info
    PROVE  free' = free /\ used_frames' = used_frames
<1>1. /\ total_frames \in Nat /\ used_frames \in Nat
      /\ Now.free = free /\ Now.used = used_frames
  BY FreeFacts
<1>2. PICK m0, m1, m2, m3 :
        m0 = Now /\ m1 = Alloc(m0) /\ m2 = Alloc(m1) /\ m3 = Alloc(m2)
  OBVIOUS
<1>3. /\ m0 \in Bitmap /\ Agrees(m0) /\ m0.free = free /\ m0.used = used_frames
      /\ Sound(m0) /\ Sound(m1) /\ Sound(m2)
  BY <1>1, <1>2, NowAgrees, FreeFacts, AllocKeepsSound
\* The third one can only get a frame if none of them finds the bitmap empty.
<1>4. m2.free # {} /\ m1.free # {} /\ m0.free # {}
  <2>1. ASSUME NEW m \in Bitmap, m.free = {} PROVE Alloc(m).frame = NoFrame /\ Alloc(m).free = {}
    BY <2>1, AllocFindsNone
  <2>2. m0 \in Bitmap /\ m1 \in Bitmap /\ m2 \in Bitmap
    BY <1>3 DEF Sound
  <2> QED BY <1>2, <2>1, <2>2
<1>5. /\ m1 \in Bitmap /\ Agrees(m1) /\ m1.frame \in m0.free
      /\ m1.free = m0.free \ {m1.frame} /\ m1.used = m0.used + 1
  BY <1>1, <1>2, <1>3, <1>4, AllocTakesOne
<1>6. /\ m2 \in Bitmap /\ Agrees(m2) /\ m2.frame \in m1.free
      /\ m2.free = m1.free \ {m2.frame} /\ m2.used = m1.used + 1
  BY <1>1, <1>2, <1>4, <1>5, AllocTakesOne
<1>7. /\ m3 \in Bitmap /\ m3.frame \in m2.free
      /\ m3.free = m2.free \ {m3.frame} /\ m3.used = m2.used + 1
  BY <1>1, <1>2, <1>4, <1>6, AllocTakesOne
<1>8. /\ m0.used \in Nat /\ m1.frame \in Nat /\ m2.frame \in Nat /\ m3.frame \in Nat
      /\ m3.used = m0.used + 3
  BY <1>3, <1>5, <1>6, <1>7 DEF Bitmap
<1>9. PICK n1, n2, n3 :
        n1 = Free(m3, m1.frame) /\ n2 = Free(n1, m2.frame) /\ n3 = Free(n2, m3.frame)
  OBVIOUS
<1>10. n1 \in Bitmap /\ n1.free = m3.free \cup {m1.frame} /\ n1.used = m0.used + 2
  <2>1. m3.used # 0 /\ m3.used - 1 = m0.used + 2
    BY <1>8
  <2> QED BY <1>7, <1>8, <1>9, <2>1, FreeReturnsOne
<1>11. n2 \in Bitmap /\ n2.free = n1.free \cup {m2.frame} /\ n2.used = m0.used + 1
  <2>1. n1.used # 0 /\ n1.used - 1 = m0.used + 1
    BY <1>8, <1>10
  <2> QED BY <1>8, <1>9, <1>10, <2>1, FreeReturnsOne
<1>12. n3.free = n2.free \cup {m3.frame} /\ n3.used = m0.used
  <2>1. n2.used # 0 /\ n2.used - 1 = m0.used
    BY <1>8, <1>11
  <2> QED BY <1>8, <1>9, <1>11, <2>1, FreeReturnsOne
<1>13. n3.free = m0.free
  BY <1>5, <1>6, <1>7, <1>10, <1>11, <1>12
<1>14. free' = n3.free /\ used_frames' = n3.used
  BY <1>2, <1>9 DEF pmm_print_info, Becomes
<1> QED BY <1>3, <1>12, <1>13, <1>14

\* Any self-test leaves the managed frames as they were.
LEMMA SelfTestKeeps == PmmInv /\ pmm_print_info => PmmInv'
<1> SUFFICES ASSUME PmmInv, pmm_print_info PROVE PmmInv'
  OBVIOUS
<1>1. /\ total_frames \in Nat /\ free \cap held = {} /\ short \in BOOLEAN
      /\ Sound(Now) /\ Now.free = free
      /\ (free \ {0}) \cup held = Managed /\ 0 \notin Managed
      /\ ~short => 0 \notin free /\ used_frames = total_frames - Cardinality(free)
  BY FreeFacts, ManagedFacts
<1>2. PICK m1, m2, m3 : m1 = Alloc(Now) /\ m2 = Alloc(m1) /\ m3 = Alloc(m2)
  OBVIOUS
<1>3. PICK n1, n2, n3 :
        n1 = Free(m3, m1.frame) /\ n2 = Free(n1, m2.frame) /\ n3 = Free(n2, m3.frame)
  OBVIOUS
<1>4. /\ Sound(m1) /\ m1.free \cup {m1.frame, 0} = free \cup {0}
      /\ m1.frame \in Managed \cup {0}
  BY <1>1, <1>2, AllocKeepsSound
<1>5. /\ Sound(m2) /\ m2.free \cup {m2.frame, 0} = m1.free \cup {0}
      /\ m2.frame \in Managed \cup {0}
  BY <1>1, <1>2, <1>4, AllocKeepsSound
<1>6. /\ Sound(m3) /\ m3.free \cup {m3.frame, 0} = m2.free \cup {0}
      /\ m3.frame \in Managed \cup {0}
  BY <1>1, <1>2, <1>5, AllocKeepsSound
<1>7. Sound(n1) /\ n1.free = m3.free \cup {m1.frame}
  BY <1>1, <1>3, <1>4, <1>6, FreeKeepsSound
<1>8. Sound(n2) /\ n2.free = n1.free \cup {m2.frame}
  BY <1>1, <1>3, <1>5, <1>7, FreeKeepsSound
<1>9. Sound(n3) /\ n3.free = n2.free \cup {m3.frame}
  BY <1>1, <1>3, <1>6, <1>8, FreeKeepsSound
<1>10. n3.free \cup {0} = free \cup {0}
  BY <1>4, <1>5, <1>6, <1>7, <1>8, <1>9
<1>11. /\ Becomes(n3) /\ free' = n3.free /\ UNCHANGED held
       /\ short' = (short \/ m3.frame = NoFrame)
  BY <1>2, <1>3 DEF pmm_print_info, Becomes
<1>12. ~short' => 0 \notin free' /\ used_frames' = total_frames - Cardinality(free')
  <2> SUFFICES ASSUME ~short' PROVE free' = free /\ used_frames' = used_frames
    BY <1>1, <1>11
  <2>1. ~short /\ Alloc(Alloc(Alloc(Now))).frame # NoFrame
    BY <1>2, <1>11
  <2> QED BY <2>1, SelfTestRestores
<1>13. free' \cap held' = {} /\ (free' \ {0}) \cup held' = (free \ {0}) \cup held
  <2>1. 0 \notin held
    BY <1>1
  <2> QED BY <1>1, <1>10, <1>11, <2>1
<1>14. short' \in BOOLEAN
  BY <1>11
<1> QED BY <1>9, <1>11, <1>12, <1>13, <1>14, PmmInvFrom

LEMMA PmmStepKeeps == PmmInv /\ [PmmNext]_pmmVars => PmmInv'
<1> SUFFICES ASSUME PmmInv, [PmmNext]_pmmVars PROVE PmmInv'
  OBVIOUS
<1>1. CASE UNCHANGED pmmVars
  BY <1>1 DEF pmmVars, PmmInv, PmmTypeOK, CounterExact, NoFrameLostOrShared, Frames,
              Sound, Now, Managed
<1> QED BY <1>1, AllocKeeps, FreeKeeps, SelfTestKeeps DEF PmmNext

\* The inductive invariant holds on every machine (pmm.c 24-97).
THEOREM PmmInvariant == PmmSpec => []PmmInv
<1>1. (\E mem \in Nat : pmm_init(mem)) => PmmInv
  BY PmmInitially
<1> QED BY <1>1, PmmStepKeeps, PTL DEF PmmSpec

-----------------------------------------------------------------------------
(* Both managers together.                                                 *)

\* The frames counted fit in the memory the machine has.
CountFits ==
    /\ total_frames \in Nat /\ machine \in Nat
    /\ total_frames * FrameSize <= machine /\ LowMemory <= machine

MemoryInv == HeapInv /\ PmmInv /\ CountFits

\* A number taken modulo another one does not grow.
LEMMA ModuloShrinks ==
    ASSUME NEW x \in Nat, NEW w \in Nat \ {0}
    PROVE  x % w \in Nat /\ x % w <= x
  OBVIOUS

\* Rounding down to whole frames.
LEMMA WholeFrames ==
    ASSUME NEW x \in Nat, NEW w \in Nat \ {0}
    PROVE  x \div w \in Nat /\ (x \div w) * w <= x
  OBVIOUS

\* A larger factor, a larger product.
LEMMA ProductGrows ==
    ASSUME NEW a \in Nat, NEW b \in Nat, NEW w \in Nat, a <= b
    PROVE  a * w <= b * w
  OBVIOUS

\* GRUB's number may be missing or wrap, but it is never more than there is.
LEMMA CountFitsInitially == MemoryInit => CountFits
<1> SUFFICES ASSUME NEW mem_upper \in MemUpper, NEW told \in BOOLEAN,
                    machine = mem_upper + LowMemory,
                    pmm_init(FramesOf(memory_init_multiboot(mem_upper, told)))
             PROVE  CountFits
  BY DEF MemoryInit
<1>1. /\ mem_upper \in Nat /\ LowMemory \in Nat /\ AddressSpace \in Nat \ {0}
      /\ FrameSize \in Nat \ {0}
  BY MachineAssumption
<1>2. PICK t : t = memory_init_multiboot(mem_upper, told)
  OBVIOUS
<1>3. t \in Nat /\ t <= machine /\ machine \in Nat
  BY <1>1, <1>2, ModuloShrinks DEF memory_init_multiboot
<1>4. total_frames = t \div FrameSize
  BY <1>2 DEF pmm_init, FramesOf
<1>5. t \div FrameSize \in Nat /\ (t \div FrameSize) * FrameSize <= t
  BY <1>1, <1>3, WholeFrames
<1>6. (t \div FrameSize) * FrameSize \in Nat
  BY <1>1, <1>5
<1>7. (t \div FrameSize) * FrameSize <= machine
  BY <1>3, <1>5, <1>6
<1>8. LowMemory <= machine
  BY <1>1
<1> QED BY <1>3, <1>4, <1>5, <1>7, <1>8 DEF CountFits

LEMMA MemoryInitially == MemoryInit => MemoryInv
<1> SUFFICES ASSUME MemoryInit PROVE MemoryInv
  OBVIOUS
<1>1. CountFits
  BY CountFitsInitially
<1>2. HeapInv
  BY HeapInitially DEF MemoryInit
<1>3. total_frames \in Nat /\ pmm_init(total_frames)
  BY <1>1 DEF CountFits, MemoryInit, pmm_init
<1>4. PmmInv
  BY <1>3, PmmInitially
<1> QED BY <1>1, <1>2, <1>4 DEF MemoryInv

LEMMA MemoryStepKeeps == MemoryInv /\ [MemoryNext]_memoryVars => MemoryInv'
<1> SUFFICES ASSUME MemoryInv, [MemoryNext]_memoryVars PROVE MemoryInv'
  OBVIOUS
<1>1. HeapInv'
  BY HeapStepKeeps DEF MemoryInv, MemoryNext, memoryVars
<1>2. PmmInv'
  BY PmmStepKeeps DEF MemoryInv, MemoryNext, memoryVars
<1>3. UNCHANGED <<total_frames, machine>>
  BY DEF MemoryNext, memoryVars, pmmVars, PmmNext, pmm_alloc_frame,
         pmm_free_frame, pmm_print_info, Becomes
<1>4. CountFits'
  BY <1>3 DEF MemoryInv, CountFits
<1> QED BY <1>1, <1>2, <1>4 DEF MemoryInv

\* Calls of the two allocators in any order keep the invariants of both.
THEOREM MemoryInvariant == MemorySpec => []MemoryInv
  BY MemoryInitially, MemoryStepKeeps, PTL DEF MemorySpec

\* Both managers' variables keep their types.
THEOREM MemoryTypeCorrect == MemorySpec => []MemoryTypeOK
<1>1. MemoryInv => MemoryTypeOK
  BY DEF MemoryInv, HeapInv, PmmInv, MemoryTypeOK
<1> QED BY <1>1, MemoryInvariant, PTL

\* The blocks tile the heap: no byte is lost or belongs to two blocks, for every
\* size of heap and header and every sequence of requests, those that wrap
\* included (heap.c 41-54, 80-93).
THEOREM HeapTiled == MemorySpec => []Tiled
<1>1. MemoryInv => Tiled
  BY DEF MemoryInv, HeapInv
<1> QED BY <1>1, MemoryInvariant, PTL

\* Splits and merges leave both directions of the list in agreement
\* (heap.c 47-53, 82-92).
THEOREM HeapLinked == MemorySpec => []DoublyLinked
<1>1. MemoryInv => DoublyLinked
  BY DEF MemoryInv, HeapInv
<1> QED BY <1>1, MemoryInvariant, PTL

\* No two neighbours are ever free (heap.c 79-93).
THEOREM HeapMerged == MemorySpec => []Coalesced
<1>1. MemoryInv => Coalesced
  BY DEF MemoryInv, HeapInv
<1> QED BY <1>1, MemoryInvariant, PTL

\* Whatever the size of memory and of the bitmap, the frame counter and the
\* bitmap agree until a self-test has been short of frames, and the counter never
\* stops a request while a frame of the managed zone is free (pmm.c 30-43, 75-97,
\* 160-162).
THEOREM CounterCorrect == MemorySpec => []CounterExact
<1>1. MemoryInv => CounterExact
  BY DEF MemoryInv, PmmInv
<1> QED BY <1>1, MemoryInvariant, PTL

\* Every frame of the managed zone is free or held by one caller, whatever
\* self-tests did to frame 0 (pmm.c 49-92, 140-162).
THEOREM NoFrameLost == MemorySpec => []NoFrameLostOrShared
<1>1. MemoryInv => NoFrameLostOrShared
  BY DEF MemoryInv, PmmInv
<1> QED BY <1>1, MemoryInvariant, PTL

\* No frame ends behind the memory the machine has, although the number of
\* bytes is computed in 32 bits and may wrap (memory.c 10-15, pmm.c 24-43).
THEOREM HandedOutExist == MemorySpec => []FramesExist
<1>1. ASSUME MemoryInv, NEW f \in free \cup held
      PROVE  (f + 1) * FrameSize <= machine
  <2>1. /\ total_frames \in Nat /\ machine \in Nat /\ LowMemory \in Nat
        /\ total_frames * FrameSize <= machine
        /\ FrameSize \in Nat /\ FrameSize <= LowMemory /\ LowMemory <= machine
    BY <1>1, MachineAssumption DEF MemoryInv, CountFits
  <2>2. f \in Managed \/ f = 0
    BY <1>1 DEF MemoryInv, PmmInv, NoFrameLostOrShared, NoFrame
  \* The first frame is in the first megabyte.
  <2>3. CASE f = 0
    BY <2>1, <2>3
  <2>4. CASE f \in Managed
    <3>1. PICK e : e = Min({total_frames, PMM_FRAMES_MAX})
      OBVIOUS
    <3>2. e \in Nat /\ e <= total_frames /\ StartFrame \in Nat
      <4>1. PMM_FRAMES_MAX \in Nat /\ StartFrame \in Nat
        BY PmmAssumption
      <4> QED BY <2>1, <3>1, <4>1, MinIsMember
    <3>3. f + 1 \in Nat /\ f + 1 <= total_frames
      BY <2>1, <2>4, <3>1, <3>2 DEF Managed
    <3>4. (f + 1) * FrameSize <= total_frames * FrameSize
      BY <2>1, <3>3, ProductGrows
    <3>5. (f + 1) * FrameSize \in Nat /\ total_frames * FrameSize \in Nat
      BY <2>1, <3>3
    <3> QED BY <2>1, <3>4, <3>5
  <2> QED BY <2>2, <2>3, <2>4
<1>2. MemoryInv => FramesExist
  BY <1>1 DEF FramesExist
<1> QED BY <1>2, MemoryInvariant, PTL

\* The heap does not notice the other allocator.
LEMMA HeapAmongOthers == MemorySpec => HeapSpec
<1>1. MemoryInit => heap_init
  BY DEF MemoryInit
<1>2. [MemoryNext]_memoryVars => [HeapNext]_heapVars
  BY DEF MemoryNext, memoryVars
<1> QED BY <1>1, <1>2, PTL DEF MemorySpec, HeapSpec

\* Each grant of kmalloc is as long as was asked for and overlaps no other one,
\* for every sequence of requests of at most Word - 4 (heap.c 27-94).
THEOREM GrantsDisjoint == NoneWraps /\ MemorySpec => ImplementsAllocator
  BY HeapAmongOthers, HeapImplementsAllocator
=============================================================================
