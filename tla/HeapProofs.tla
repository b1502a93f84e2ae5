----------------------------- MODULE HeapProofs ------------------------------
(***************************************************************************)
(* Machine-checked proofs about Heap, for every heap, header and set of    *)
(* requests that satisfies HeapAssumption: the inductive invariant, and    *)
(* that the heap implements Allocator, if no request wraps when it is      *)
(* rounded up.                                                             *)
(***************************************************************************)
EXTENDS Heap, TLAPS

\* No block begins inside another one.  With it a split or a merge only has to
\* be looked at where it happens: Tiled alone does not say that the blocks met
\* by following "next" are all the blocks there are.
Separate ==
    \A b, c \in blocks : b < c => b + Header + size[b] <= c

HeapInv ==
    /\ HeapTypeOK
    /\ Tiled
    /\ DoublyLinked
    /\ Coalesced
    /\ Separate

-----------------------------------------------------------------------------
(* Arithmetic in 32 bits.                                                  *)

\* A number that fits in a word is what it is.
LEMMA FitsInWord ==
    ASSUME NEW w \in Nat \ {0}, NEW n \in 0..(w - 1)
    PROVE  n % w = n
  OBVIOUS

\* What a request is rounded up to is a number of a word.
LEMMA AlignType ==
    ASSUME NEW n \in 0..(Word - 1)
    PROVE  Align(n) \in 0..(Word - 1)
<1>1. Word \in Nat \ {0} /\ n \in Nat /\ Word % 4 = 0
  BY HeapAssumption
<1>2. n % 4 \in 0..3
  BY <1>1
<1>3. n + 4 - (n % 4) \in Nat
  BY <1>1, <1>2
<1>4. (n + 4 - (n % 4)) % Word \in 0..(Word - 1)
  BY <1>1, <1>3
<1> QED BY <1>1, <1>4 DEF Align

\* Rounding up does not make a request smaller, unless it wraps.
LEMMA AlignGrows ==
    ASSUME NEW n \in 0..(Word - 1), n <= Word - 4
    PROVE  Align(n) >= n
<1>1. Word \in Nat \ {0} /\ n \in Nat /\ Word % 4 = 0
  BY HeapAssumption
<1>2. n % 4 \in 0..3
  BY <1>1
<1>3. CASE n % 4 = 0
  BY <1>1, <1>3 DEF Align
<1>4. CASE n % 4 # 0
  <2>1. n # Word - 4
    BY <1>1, <1>4
  <2>2. n + 4 - (n % 4) \in 0..(Word - 1)
    BY <1>1, <1>2, <1>4, <2>1
  <2>3. (n + 4 - (n % 4)) % Word = n + 4 - (n % 4)
    BY <1>1, <2>2, FitsInWord
  <2> QED BY <1>1, <1>2, <1>4, <2>3 DEF Align
<1> QED BY <1>3, <1>4

\* A block that a request fits in is split exactly where there is room for
\* another header and four bytes: the sum does not wrap.
LEMMA SplitsExactly ==
    ASSUME HeapInv, NEW b \in blocks, NEW n \in Nat, Fits(b, n)
    PROVE  Splits(b, n) <=> size[b] >= n + Header + 4
<1>1. /\ HEAP_START \in Nat \ {0} /\ HEAP_SIZE \in Nat /\ Header \in Nat \ {0}
      /\ Word \in Nat /\ HEAP_SIZE + Header + 4 < Word
  BY HeapAssumption
<1>2. size[b] \in 0..HEAP_SIZE /\ size[b] >= n
  BY DEF HeapInv, HeapTypeOK, Fits, Addr, HEAP_END
<1>3. n + Header + 4 \in 0..(Word - 1)
  BY <1>1, <1>2
<1>4. (n + Header + 4) % Word = n + Header + 4
  BY <1>1, <1>3, FitsInWord
<1> QED BY <1>4 DEF Splits
-----------------------------------------------------------------------------
(* The inductive invariant.                                                *)

LEMMA HeapInitially == heap_init => HeapInv
<1> SUFFICES ASSUME heap_init PROVE HeapInv
  OBVIOUS
<1>1. /\ HEAP_START \in Nat \ {0} /\ HEAP_SIZE \in Nat /\ Header \in Nat \ {0}
      /\ HEAP_SIZE > Header
  BY HeapAssumption
<1>2. HEAP_START \in Addr
  BY <1>1 DEF Addr, HEAP_END
<1>3. size[HEAP_START] = HEAP_SIZE - Header
  BY <1>2 DEF heap_init, heap_start_ptr, Zero
<1>4. HeapTypeOK
  BY <1>1, <1>2 DEF heap_init, heap_start_ptr, Zero, HeapTypeOK, NULL
<1>5. next[HEAP_START] = NULL /\ prev[HEAP_START] = NULL
  BY <1>2 DEF heap_init, Zero, NULL
<1> QED BY <1>1, <1>2, <1>3, <1>4, <1>5
    DEF heap_init, heap_start_ptr, HeapInv, Tiled, DoublyLinked, Coalesced,
        Separate, HEAP_END

\* Where the fields of a block on the list lie.
LEMMA BlockFacts ==
    ASSUME HeapInv, NEW b \in blocks
    PROVE  /\ b \in Addr /\ b \in Nat /\ b >= HEAP_START /\ b < HEAP_END
           /\ size[b] \in Nat /\ size[b] <= HEAP_SIZE
           /\ b + Header + size[b] <= HEAP_END
           /\ next[b] = NULL => b + Header + size[b] = HEAP_END
           /\ next[b] # NULL => /\ next[b] \in blocks /\ next[b] \in Addr
                                /\ next[b] = b + Header + size[b]
                                /\ prev[next[b]] = b
<1>1. HEAP_START \in Nat \ {0} /\ HEAP_SIZE \in Nat /\ Header \in Nat \ {0}
  BY HeapAssumption
<1>2. b \in Addr /\ size[b] \in 0..HEAP_SIZE
  BY DEF HeapInv, HeapTypeOK
<1>3. b \in Nat /\ b >= HEAP_START /\ b < HEAP_END /\ HEAP_END \in Nat
  BY <1>1, <1>2 DEF Addr, HEAP_END
<1>4. next[b] = NULL => b + Header + size[b] = HEAP_END
  BY DEF HeapInv, Tiled
<1>5. next[b] # NULL => /\ next[b] \in blocks /\ next[b] \in Addr
                        /\ next[b] = b + Header + size[b]
                        /\ prev[next[b]] = b
  BY DEF HeapInv, HeapTypeOK, Tiled, DoublyLinked
<1>6. next[b] # NULL => next[b] < HEAP_END
  BY <1>1, <1>5 DEF Addr, HEAP_END
<1>7. b + Header + size[b] <= HEAP_END
  BY <1>1, <1>2, <1>3, <1>4, <1>5, <1>6
<1> QED BY <1>2, <1>3, <1>4, <1>5, <1>7

\* The next block begins behind its predecessor, and nothing is in between.
LEMMA NothingBetween ==
    ASSUME HeapInv, NEW b \in blocks, NEW c \in blocks, c > b
    PROVE  c >= b + Header + size[b]
  BY DEF HeapInv, Separate

\* Handing out a whole block changes none of the links.
LEMMA TakeWholeKeeps ==
    ASSUME HeapInv, NEW b \in blocks, NEW n \in Nat, NEW request \in Requests,
           Fits(b, n), TakeWhole(b, n),
           used' = [used EXCEPT ![b] = TRUE],
           asked' = [asked EXCEPT ![b] = request]
    PROVE  HeapInv'
<1>1. b \in Addr
  BY BlockFacts
<1>2. HeapTypeOK'
  BY <1>1 DEF HeapInv, HeapTypeOK, TakeWhole
<1>3. Tiled' /\ DoublyLinked' /\ Separate'
  BY DEF HeapInv, Tiled, DoublyLinked, Separate, TakeWhole
<1>4. \A c \in blocks : used[c] => used'[c]
  BY <1>1 DEF HeapInv, HeapTypeOK
<1>5. \A c \in blocks : next[c] # NULL => next[c] \in blocks
  BY DEF HeapInv, DoublyLinked
<1>6. Coalesced'
  BY <1>4, <1>5 DEF HeapInv, Coalesced, TakeWhole
<1> QED BY <1>2, <1>3, <1>6 DEF HeapInv
\* Splitting a block: the new header is inside it, and the three blocks
\* concerned are linked again.
LEMMA TakeFrontKeeps ==
    ASSUME HeapInv, NEW b \in blocks, NEW n \in Nat, NEW request \in Requests,
           Fits(b, n), TakeFront(b, n),
           used' = [used EXCEPT ![b] = TRUE],
           asked' = [asked EXCEPT ![b] = request]
    PROVE  HeapInv'
<1>1. HEAP_START \in Nat \ {0} /\ HEAP_SIZE \in Nat /\ Header \in Nat \ {0}
  BY HeapAssumption
<1>2. /\ b \in Addr /\ b \in Nat /\ b >= HEAP_START
      /\ size[b] \in Nat /\ size[b] <= HEAP_SIZE
      /\ b + Header + size[b] <= HEAP_END
  BY BlockFacts
<1>3. size[b] >= n + Header + 4
  BY SplitsExactly DEF TakeFront
<1>4. PICK new \in Addr : new = b + Header + n /\ new > b /\ new # NULL
  BY <1>1, <1>2, <1>3 DEF Addr, HEAP_END, NULL
<1>5. new \notin blocks
  <2> SUFFICES ASSUME new \in blocks PROVE FALSE
    OBVIOUS
  <2>1. new >= b + Header + size[b]
    BY <1>4, NothingBetween
  <2> QED BY <1>1, <1>2, <1>3, <1>4, <2>1
<1>6. /\ blocks' = blocks \cup {new}
      /\ size' = [size EXCEPT ![new] = size[b] - n - Header, ![b] = n]
      /\ next' = [next EXCEPT ![new] = next[b], ![b] = new]
      /\ prev' = [a \in Addr |-> IF a = new THEN b
                                 ELSE IF a = next[b] THEN new ELSE prev[a]]
  BY <1>4 DEF TakeFront
<1>7. HeapTypeOK
  BY DEF HeapInv
<1>16. blocks \subseteq blocks' /\ new \in blocks' /\ b \in blocks'
       /\ \A c \in blocks' : c = b \/ c = new \/ c \in blocks \ {b}
  BY <1>6
<1>8. /\ size'[b] = n /\ size'[new] = size[b] - n - Header
      /\ next'[b] = new /\ next'[new] = next[b] /\ prev'[new] = b
      /\ used'[b] = TRUE
  BY <1>2, <1>4, <1>6, <1>7 DEF HeapTypeOK
<1>9. \A c \in blocks \ {b} : size'[c] = size[c] /\ next'[c] = next[c]
  BY <1>5, <1>6, <1>7 DEF HeapTypeOK
<1>10. \A c \in blocks : used[c] => used'[c]
  BY <1>7 DEF HeapTypeOK
<1>11. HeapTypeOK'
  <2>1. n \in 0..HEAP_SIZE /\ size[b] - n - Header \in 0..HEAP_SIZE
    BY <1>1, <1>2, <1>3
  <2>2. size' \in [Addr -> 0..HEAP_SIZE]
    BY <1>6, <1>7, <2>1 DEF HeapTypeOK
  <2>3. next' \in [Addr -> Addr \cup {NULL}]
    BY <1>2, <1>4, <1>6, <1>7 DEF HeapTypeOK
  <2>4. prev' \in [Addr -> Addr \cup {NULL}]
    BY <1>2, <1>4, <1>6, <1>7 DEF HeapTypeOK
  <2> QED BY <1>4, <1>6, <1>7, <2>2, <2>3, <2>4 DEF HeapTypeOK
<1>12. Tiled'
  <2>1. heap_start_ptr \in blocks'
    BY <1>6 DEF HeapInv, Tiled
  <2>2. b + Header + size'[b] = next'[b] /\ next'[b] # NULL
    BY <1>4, <1>8
  <2>3. new + Header + size'[new] = IF next'[new] = NULL THEN HEAP_END ELSE next'[new]
    <3>1. new + Header + size'[new] = b + Header + size[b]
      BY <1>1, <1>2, <1>8, <1>4
    <3>2. b + Header + size[b] = IF next[b] = NULL THEN HEAP_END ELSE next[b]
      BY DEF HeapInv, Tiled
    <3> QED BY <1>8, <3>1, <3>2
  <2>4. \A c \in blocks \ {b} :
          c + Header + size'[c] = IF next'[c] = NULL THEN HEAP_END ELSE next'[c]
    BY <1>9 DEF HeapInv, Tiled
  <2>5. \A c \in blocks' :
          c + Header + size'[c] = IF next'[c] = NULL THEN HEAP_END ELSE next'[c]
    BY <1>16, <2>2, <2>3, <2>4
  <2> QED BY <2>1, <2>5 DEF Tiled
<1>13. DoublyLinked'
  <2>1. heap_start_ptr \in blocks /\ prev[heap_start_ptr] = NULL /\ b # NULL
    BY <1>1, <1>2 DEF HeapInv, Tiled, DoublyLinked, NULL
  <2>2. next[b] # NULL => next[b] \in blocks /\ next[b] \in Addr /\ prev[next[b]] = b
    BY BlockFacts
  <2>3. \A c \in blocks : c \in Addr /\ c # NULL
    BY <1>1, <1>7 DEF HeapTypeOK, Addr, NULL
  <2>4. next[b] # heap_start_ptr
    BY <2>1, <2>2, <2>3
  <2>5. \A c \in blocks : c # next[b] => prev'[c] = prev[c]
    BY <1>5, <1>6, <2>3
  <2>6. prev'[heap_start_ptr] = NULL
    BY <2>1, <2>4, <2>5
  <2>7. ASSUME NEW c \in blocks', next'[c] # NULL
        PROVE  next'[c] \in blocks' /\ prev'[next'[c]] = c
    <3>1. CASE c = b
      BY <1>6, <1>8, <3>1
    <3>2. CASE c = new
      <4>1. next[b] # NULL /\ next'[c] = next[b]
        BY <1>8, <2>7, <3>2
      <4>2. next[b] # new /\ next[b] \in Addr /\ next[b] \in blocks
        BY <1>5, <2>2, <4>1
      <4>3. prev'[next[b]] = new
        BY <1>6, <4>2
      <4> QED BY <1>16, <3>2, <4>1, <4>2, <4>3
    <3>3. CASE c \in blocks \ {b}
      <4>1. next'[c] = next[c]
        BY <1>9, <3>3
      <4>2. next[c] \in blocks /\ prev[next[c]] = c
        BY <2>7, <3>3, <4>1 DEF HeapInv, DoublyLinked
      <4>3. next[c] # next[b]
        BY <2>2, <2>3, <3>3, <4>2
      <4>4. prev'[next[c]] = c
        BY <2>5, <4>2, <4>3
      <4> QED BY <1>16, <4>1, <4>2, <4>4
    <3> QED BY <1>6, <3>1, <3>2, <3>3
  <2>8. ASSUME NEW c \in blocks' \ {heap_start_ptr}
        PROVE  prev'[c] \in blocks' /\ next'[prev'[c]] = c
    <3>1. CASE c = new
      BY <1>6, <1>8, <3>1
    <3>2. CASE c = next[b]
      <4>1. prev'[c] = new
        BY <1>5, <1>6, <1>8, <2>2, <2>3, <2>8, <3>2, <1>4
      <4> QED BY <1>6, <1>8, <3>2, <4>1
    <3>3. CASE c \in blocks /\ c # next[b]
      <4>1. prev[c] \in blocks /\ next[prev[c]] = c
        BY <2>8, <3>3 DEF HeapInv, DoublyLinked
      <4>2. prev'[c] = prev[c] /\ prev[c] # b
        BY <2>5, <3>3, <4>1
      <4>3. next'[prev[c]] = next[prev[c]]
        BY <1>9, <4>1, <4>2
      <4> QED BY <1>16, <4>1, <4>2, <4>3
    <3> QED BY <1>6, <3>1, <3>2, <3>3
  <2> QED BY <2>6, <2>7, <2>8 DEF DoublyLinked, heap_start_ptr, NULL
<1>14. Coalesced'
  <2> SUFFICES ASSUME NEW c \in blocks', next'[c] # NULL
               PROVE  used'[c] \/ used'[next'[c]]
    BY DEF Coalesced, NULL
  <2>1. CASE c = b
    BY <1>8, <2>1
  <2>2. CASE c = new
    <3>1. next[b] # NULL /\ next[b] \in blocks
      BY <1>8, <2>2, BlockFacts
    <3>2. used[next[b]]
      BY <3>1 DEF HeapInv, Coalesced, Fits
    <3> QED BY <1>8, <1>10, <2>2, <3>1, <3>2
  <2>3. CASE c \in blocks \ {b}
    <3>1. next[c] # NULL /\ next'[c] = next[c]
      BY <1>9, <2>3
    <3>2. next[c] \in blocks /\ (used[c] \/ used[next[c]])
      BY <2>3, <3>1 DEF HeapInv, Coalesced, DoublyLinked
    <3> QED BY <1>10, <2>3, <3>1, <3>2
  <2> QED BY <1>6, <2>1, <2>2, <2>3
<1>15. Separate'
  <2> SUFFICES ASSUME NEW c \in blocks', NEW d \in blocks', c < d
               PROVE  c + Header + size'[c] <= d
    BY DEF Separate
  <2>1. \A e \in blocks : e \in Nat /\ size[e] \in Nat
    BY BlockFacts
  <2>2. \A e \in blocks : size'[e] <= size[e]
    BY <1>1, <1>3, <1>8, <1>9, <2>1
  <2>3. CASE c \in blocks /\ d \in blocks
    <3>1. c + Header + size[c] <= d
      BY <2>3 DEF HeapInv, Separate
    <3>2. size'[c] \in Nat
      BY <1>8, <1>9, <2>1, <2>3
    <3> QED BY <1>1, <2>1, <2>2, <2>3, <3>1, <3>2
  <2>4. CASE c = new /\ d \in blocks
    <3>1. d >= b + Header + size[b]
      BY <1>2, <1>4, <2>1, <2>4, NothingBetween
    <3> QED BY <1>1, <1>2, <1>8, <2>1, <2>4, <3>1, <1>4
  <2>5. CASE d = new /\ c \in blocks
    <3>1. CASE c = b
      BY <1>1, <1>2, <1>8, <2>5, <3>1, <1>4
    <3>2. CASE c < b
      <4>1. c + Header + size[c] <= b
        BY <2>5, <3>2 DEF HeapInv, Separate
      <4> QED BY <1>1, <1>2, <1>4, <1>9, <2>1, <2>5, <3>2, <4>1
    <3>3. CASE c > b
      <4>1. c >= b + Header + size[b]
        BY <2>5, <3>3, NothingBetween
      <4> QED BY <1>1, <1>2, <1>3, <2>1, <2>5, <4>1, <1>4
    <3> QED BY <1>2, <2>1, <2>5, <3>1, <3>2, <3>3
  <2>6. CASE c = new /\ d = new
    BY <1>1, <1>2, <2>6, <1>4
  <2> QED BY <1>6, <2>3, <2>4, <2>5, <2>6
<1> QED BY <1>11, <1>12, <1>13, <1>14, <1>15 DEF HeapInv

\* Freeing a block, merged or not with its neighbours: "gone" are the headers
\* that are merged away, "keeper" the block that holds the freed bytes
\* afterwards and "after" the one behind it.
LEMMA KfreeKeeps ==
    ASSUME HeapInv, NEW b \in blocks, kfree(b)
    PROVE  HeapInv'
<1>1. /\ HEAP_START \in Nat \ {0} /\ HEAP_SIZE \in Nat /\ Header \in Nat \ {0}
      /\ HEAP_END \in Nat /\ HEAP_END = HEAP_START + HEAP_SIZE
      /\ HEAP_END # NULL /\ NULL = 0 /\ heap_start_ptr = HEAP_START
  BY HeapAssumption DEF HEAP_END, NULL, heap_start_ptr
<1>2. HeapTypeOK /\ Tiled /\ DoublyLinked /\ Coalesced /\ Separate
  BY DEF HeapInv
<1>3. \A c \in blocks :
        /\ c \in Addr /\ c \in Nat /\ c # NULL /\ c >= HEAP_START /\ c < HEAP_END
        /\ size[c] \in Nat /\ used[c] \in BOOLEAN
        /\ next[c] = NULL => c + Header + size[c] = HEAP_END
        /\ next[c] # NULL => /\ next[c] \in blocks /\ prev[next[c]] = c
                             /\ next[c] = c + Header + size[c]
        /\ prev[c] # NULL => prev[c] \in blocks /\ next[prev[c]] = c
        /\ c # heap_start_ptr => prev[c] # NULL
  <2> SUFFICES ASSUME NEW c \in blocks
               PROVE  /\ c \in Addr /\ c \in Nat /\ c # NULL /\ c >= HEAP_START
                      /\ c < HEAP_END /\ size[c] \in Nat /\ used[c] \in BOOLEAN
                      /\ next[c] = NULL => c + Header + size[c] = HEAP_END
                      /\ next[c] # NULL => /\ next[c] \in blocks /\ prev[next[c]] = c
                                           /\ next[c] = c + Header + size[c]
                      /\ prev[c] # NULL => prev[c] \in blocks /\ next[prev[c]] = c
                      /\ c # heap_start_ptr => prev[c] # NULL
    OBVIOUS
  <2>1. \A d \in blocks : d # NULL
    BY <1>1, BlockFacts
  <2>2. prev[c] # NULL => prev[c] \in blocks /\ next[prev[c]] = c
    BY <1>2 DEF DoublyLinked
  <2>3. c # heap_start_ptr => prev[c] # NULL
    BY <1>2, <2>1 DEF DoublyLinked
  <2>4. used[c] \in BOOLEAN
    BY <1>2, BlockFacts DEF HeapTypeOK
  <2> QED BY <2>1, <2>2, <2>3, <2>4, BlockFacts
<1>4. PICK n, p : n = next[b] /\ p = prev[b]
  OBVIOUS
<1> DEFINE WithNext == n # NULL /\ ~used[n]
           WithPrev == p # NULL /\ ~used[p]
<1>5. PICK k, after, gone :
        /\ k = IF WithPrev THEN p ELSE b
        /\ after = IF WithNext THEN next[n] ELSE n
        /\ gone = {a \in {n} : WithNext} \cup {a \in {b} : WithPrev}
  OBVIOUS
<1>6. /\ asked' = [asked EXCEPT ![b] = 0]
      /\ used' = [used EXCEPT ![b] = FALSE]
      /\ blocks' = blocks \ gone
      /\ size' = [a \in Addr |->
                    IF a \in gone THEN 0
                    ELSE IF a = k
                    THEN size[a] + (IF WithPrev THEN Header + size[b] ELSE 0)
                                 + (IF WithNext THEN Header + size[n] ELSE 0)
                    ELSE size[a]]
      /\ next' = [a \in Addr |-> IF a \in gone THEN NULL
                                 ELSE IF a = k THEN after ELSE next[a]]
      /\ prev' = [a \in Addr |-> IF a \in gone THEN NULL
                                 ELSE IF a = after THEN k ELSE prev[a]]
  BY <1>4, <1>5 DEF kfree
<1>7. /\ n # NULL => /\ n \in blocks /\ prev[n] = b /\ n = b + Header + size[b]
                     /\ next[n] # NULL => next[n] \in blocks /\ prev[next[n]] = n
      /\ n = NULL => b + Header + size[b] = HEAP_END
      /\ p # NULL => p \in blocks /\ next[p] = b /\ b = p + Header + size[p]
      /\ WithPrev => b # heap_start_ptr
  <2>1. prev[heap_start_ptr] = NULL
    BY <1>2 DEF DoublyLinked
  <2> QED BY <1>3, <1>4, <2>1
<1>8. gone \subseteq blocks /\ heap_start_ptr \notin gone
  <2>1. prev[heap_start_ptr] = NULL /\ heap_start_ptr \in blocks
    BY <1>2 DEF DoublyLinked, Tiled
  <2> QED BY <1>3, <1>5, <1>7, <2>1
<1>9. k \in blocks /\ k \notin gone /\ (b = k \/ b \in gone)
  <2>1. WithPrev => p < b /\ (n # NULL => b < n)
    BY <1>1, <1>3, <1>7
  <2>2. n # NULL => b # n
    BY <1>1, <1>3, <1>7
  <2> QED BY <1>1, <1>3, <1>5, <1>7, <2>1, <2>2
<1>10. after # NULL => /\ after \in blocks /\ after \notin gone /\ after > b
                       /\ after # heap_start_ptr /\ after # k
                       /\ used[after]
  <2> SUFFICES ASSUME after # NULL
               PROVE  /\ after \in blocks /\ after \notin gone /\ after > b
                      /\ after # heap_start_ptr /\ after # k /\ used[after]
    OBVIOUS
  <2>1. n # NULL /\ n \in blocks /\ n > b
    BY <1>1, <1>3, <1>5, <1>7
  <2>2. CASE WithNext
    <3>1. after = next[n] /\ after \in blocks /\ after > n
      BY <1>1, <1>3, <1>5, <2>1, <2>2
    <3>2. used[n] \/ used[next[n]]
      BY <1>2, <2>1, <3>1 DEF Coalesced
    <3> QED BY <1>1, <1>3, <1>5, <1>7, <2>1, <2>2, <3>1, <3>2
  <2>3. CASE ~WithNext
    BY <1>1, <1>3, <1>5, <1>7, <2>1, <2>3
  <2> QED BY <2>2, <2>3
<1>11. /\ blocks' \subseteq blocks /\ k \in blocks'
       /\ (after # NULL => after \in blocks') /\ heap_start_ptr \in blocks'
       /\ \A c \in blocks' : c \in blocks /\ c \notin gone /\ c \in Addr
  <2>1. heap_start_ptr \in blocks
    BY <1>2 DEF Tiled
  <2> QED BY <1>3, <1>6, <1>8, <1>9, <1>10, <2>1
<1>12. size'[k] \in Nat /\ k + Header + size'[k] = IF after = NULL THEN HEAP_END ELSE after
  <2>1. size'[k] = size[k] + (IF WithPrev THEN Header + size[b] ELSE 0)
                           + (IF WithNext THEN Header + size[n] ELSE 0)
    BY <1>3, <1>6, <1>9
  <2>2. k + Header + size[k] + (IF WithPrev THEN Header + size[b] ELSE 0)
          = b + Header + size[b]
    BY <1>1, <1>3, <1>5, <1>7
  <2>3. size[k] \in Nat /\ size[b] \in Nat /\ k \in Nat /\ b \in Nat
    BY <1>3, <1>9
  <2>4. CASE WithNext
    <3>1. n = b + Header + size[b] /\ size[n] \in Nat /\ n \in Nat
      BY <1>3, <1>7, <2>4
    <3>2. n + Header + size[n] = IF after = NULL THEN HEAP_END ELSE after
      BY <1>3, <1>5, <1>7, <2>4
    <3> QED BY <1>1, <2>1, <2>2, <2>3, <2>4, <3>1, <3>2
  <2>5. CASE ~WithNext
    <3>1. b + Header + size[b] = IF after = NULL THEN HEAP_END ELSE after
      BY <1>5, <1>7, <2>5
    <3> QED BY <1>1, <2>1, <2>2, <2>3, <2>5, <3>1
  <2> QED BY <2>4, <2>5
<1>13. next'[k] = after /\ (after # NULL => prev'[after] = k)
  BY <1>3, <1>6, <1>9, <1>10
<1>14. \A c \in blocks' \ {k} : size'[c] = size[c] /\ next'[c] = next[c]
  BY <1>6, <1>11
<1>15. \A c \in blocks' \ {after} : prev'[c] = prev[c]
  BY <1>6, <1>11
<1>16. used'[b] = FALSE /\ \A c \in blocks \ {b} : used'[c] = used[c]
  BY <1>2, <1>3, <1>6 DEF HeapTypeOK
<1>17. HeapTypeOK'
  <2>1. \A c \in blocks : size[c] \in 0..HEAP_SIZE
    BY <1>2, <1>3 DEF HeapTypeOK
  <2>2. size'[k] \in 0..HEAP_SIZE
    <3>1. k \in Nat /\ k >= HEAP_START
      BY <1>3, <1>9
    <3>2. after # NULL => after \in Nat /\ after <= HEAP_END
      BY <1>1, <1>3, <1>10
    <3> QED BY <1>1, <1>12, <3>1, <3>2
  <2>3. size' \in [Addr -> 0..HEAP_SIZE]
    <3>1. \A a \in Addr : a \in gone => size'[a] = 0
      BY <1>6
    <3>2. \A a \in Addr : a \notin gone /\ a # k => size'[a] = size[a]
      BY <1>6
    <3>3. DOMAIN size' = Addr /\ size' = [a \in Addr |-> size'[a]]
      BY <1>6
    <3>4. \A a \in Addr : size'[a] \in 0..HEAP_SIZE
      BY <1>1, <1>2, <2>2, <3>1, <3>2 DEF HeapTypeOK
    <3> QED BY <3>3, <3>4
  <2>4. next' \in [Addr -> Addr \cup {NULL}]
    BY <1>2, <1>3, <1>6, <1>10 DEF HeapTypeOK
  <2>5. prev' \in [Addr -> Addr \cup {NULL}]
    BY <1>2, <1>3, <1>6, <1>9 DEF HeapTypeOK
  <2>6. blocks' \subseteq Addr
    BY <1>3, <1>11
  <2>7. used' \in [Addr -> BOOLEAN] /\ asked' \in [Addr -> Requests \cup {0}]
    BY <1>2, <1>6 DEF HeapTypeOK
  <2> QED BY <2>3, <2>4, <2>5, <2>6, <2>7 DEF HeapTypeOK
<1>18. Tiled'
  <2>1. \A c \in blocks' :
          c + Header + size'[c] = IF next'[c] = NULL THEN HEAP_END ELSE next'[c]
    BY <1>2, <1>11, <1>12, <1>13, <1>14 DEF Tiled
  <2> QED BY <1>11, <2>1 DEF Tiled
\* Only the keeper is linked to a block merged away, or to the one behind it.
<1>19. \A c \in blocks' \ {k} : next[c] # NULL => next[c] \notin gone /\ next[c] # after
  <2> SUFFICES ASSUME NEW c \in blocks', c # k, next[c] # NULL
               PROVE  next[c] \notin gone /\ next[c] # after
    OBVIOUS
  <2>1. c \in blocks /\ c \notin gone /\ prev[next[c]] = c
    BY <1>3, <1>11
  <2>2. c # b
    BY <1>9, <2>1
  <2>3. next[c] # n
    BY <1>7, <2>1, <2>2
  <2>4. WithNext => next[c] # next[n]
    BY <1>5, <1>7, <2>1
  <2>5. WithPrev => next[c] # b
    BY <1>4, <1>5, <2>1
  <2> QED BY <1>5, <2>3, <2>4, <2>5
<1>20. \A c \in blocks' \ {after, heap_start_ptr} :
         prev[c] \in blocks /\ next[prev[c]] = c /\ prev[c] \notin gone /\ prev[c] # k
  <2> SUFFICES ASSUME NEW c \in blocks', c # after, c # heap_start_ptr
               PROVE  /\ prev[c] \in blocks /\ next[prev[c]] = c
                      /\ prev[c] \notin gone /\ prev[c] # k
    OBVIOUS
  <2>1. c \in blocks /\ c \notin gone
    BY <1>11
  <2>2. prev[c] \in blocks /\ next[prev[c]] = c
    BY <1>3, <2>1
  <2>3. c # n
    <3> SUFFICES ASSUME c = n PROVE FALSE
      OBVIOUS
    <3>1. n # NULL
      BY <1>3, <2>1
    <3> QED BY <1>5, <2>1, <3>1
  <2>4. prev[c] # b
    BY <1>4, <2>2, <2>3
  <2>5. WithNext => prev[c] # n
    BY <1>5, <2>2
  <2>6. WithPrev => prev[c] # p
    BY <1>5, <1>7, <2>1, <2>2
  <2> QED BY <1>5, <2>2, <2>4, <2>5, <2>6
<1>21. DoublyLinked'
  <2>1. prev'[heap_start_ptr] = NULL
    <3>1. heap_start_ptr # after
      BY <1>1, <1>10
    <3>2. prev[heap_start_ptr] = NULL
      BY <1>2 DEF DoublyLinked
    <3> QED BY <1>11, <1>15, <3>1, <3>2
  <2>2. \A c \in blocks' : next'[c] # NULL => next'[c] \in blocks' /\ prev'[next'[c]] = c
    <3> SUFFICES ASSUME NEW c \in blocks', next'[c] # NULL
                 PROVE  next'[c] \in blocks' /\ prev'[next'[c]] = c
      OBVIOUS
    <3>1. CASE c = k
      BY <1>11, <1>13, <3>1
    <3>2. CASE c # k
      <4>1. next'[c] = next[c] /\ next[c] # NULL
        BY <1>14, <3>2
      <4>2. next[c] \in blocks /\ prev[next[c]] = c
        BY <1>3, <1>11, <4>1
      <4>3. next[c] \notin gone /\ next[c] # after
        BY <1>19, <3>2, <4>1
      <4>4. next[c] \in blocks'
        BY <1>6, <4>2, <4>3
      <4>5. prev'[next[c]] = c
        BY <1>15, <4>2, <4>3, <4>4
      <4> QED BY <4>1, <4>4, <4>5
    <3> QED BY <3>1, <3>2
  <2>3. \A c \in blocks' \ {heap_start_ptr} : prev'[c] \in blocks' /\ next'[prev'[c]] = c
    <3> SUFFICES ASSUME NEW c \in blocks', c # heap_start_ptr
                 PROVE  prev'[c] \in blocks' /\ next'[prev'[c]] = c
      OBVIOUS
    <3>1. CASE c = after
      <4>1. c # NULL
        BY <1>3, <1>11
      <4> QED BY <1>11, <1>13, <3>1, <4>1
    <3>2. CASE c # after
      <4>1. /\ prev[c] \in blocks /\ next[prev[c]] = c
            /\ prev[c] \notin gone /\ prev[c] # k
        BY <1>20, <3>2
      <4>2. prev'[c] = prev[c] /\ prev[c] \in blocks'
        BY <1>6, <1>15, <3>2, <4>1
      <4>3. next'[prev[c]] = next[prev[c]]
        BY <1>14, <4>1, <4>2
      <4> QED BY <4>1, <4>2, <4>3
    <3> QED BY <3>1, <3>2
  <2> QED BY <2>1, <2>2, <2>3 DEF DoublyLinked, heap_start_ptr, NULL
<1>22. Coalesced'
  <2> SUFFICES ASSUME NEW c \in blocks', next'[c] # NULL
               PROVE  used'[c] \/ used'[next'[c]]
    BY DEF Coalesced, NULL
  <2>1. CASE c = k
    <3>1. next'[c] = after /\ after # NULL
      BY <1>13, <2>1
    <3>2. after \in blocks /\ after # b /\ used[after]
      BY <1>3, <1>9, <1>10, <3>1
    <3> QED BY <1>16, <3>1, <3>2
  <2>2. CASE c # k
    <3>1. c \in blocks /\ c # b
      BY <1>9, <1>11, <2>2
    <3>2. next'[c] = next[c] /\ next[c] \in blocks /\ prev[next[c]] = c
      BY <1>3, <1>14, <2>2, <3>1
    <3>3. used[c] \/ used[next[c]]
      BY <1>2, <3>1, <3>2 DEF Coalesced
    <3>4. next[c] = b => used[c]
      <4> SUFFICES ASSUME next[c] = b PROVE used[c]
        OBVIOUS
      <4>1. p = c /\ p # NULL
        BY <1>3, <1>4, <3>1, <3>2
      <4> QED BY <1>5, <2>2, <4>1
    <3> QED BY <1>16, <3>1, <3>2, <3>3, <3>4
  <2> QED BY <2>1, <2>2
<1>23. Separate'
  <2> SUFFICES ASSUME NEW c \in blocks', NEW d \in blocks', c < d
               PROVE  c + Header + size'[c] <= d
    BY DEF Separate
  <2>1. c \in blocks /\ d \in blocks /\ c \notin gone /\ d \notin gone
    BY <1>11
  <2>2. CASE c # k
    BY <1>2, <1>14, <2>1, <2>2 DEF Separate
  <2>3. CASE c = k
    <3>1. d > b
      <4>1. CASE WithPrev
        <5>1. c + Header + size[c] <= d /\ d # b
          BY <1>2, <1>5, <2>1, <4>1 DEF Separate
        <5>2. c + Header + size[c] = b
          BY <1>5, <1>7, <2>3, <4>1
        <5> QED BY <1>3, <2>1, <5>1, <5>2
      <4>2. CASE ~WithPrev
        BY <1>3, <1>5, <2>1, <2>3, <4>2
      <4> QED BY <4>1, <4>2
    <3>2. d >= b + Header + size[b]
      <4>1. b < d
        BY <1>3, <2>1, <3>1
      <4> QED BY <1>2, <2>1, <4>1 DEF Separate
    <3>3. n # NULL
      BY <1>1, <1>3, <1>7, <2>1, <3>2
    <3>4. d >= n
      BY <1>7, <3>2, <3>3
    <3>5. CASE WithNext
      <4>1. d # n
        BY <1>5, <2>1, <3>5
      <4>2. d >= n + Header + size[n]
        <5>1. n < d /\ n \in blocks
          BY <1>3, <1>7, <2>1, <3>3, <3>4, <4>1
        <5> QED BY <1>2, <2>1, <5>1 DEF Separate
      <4>3. after # NULL /\ after = n + Header + size[n]
        BY <1>1, <1>3, <1>5, <1>7, <2>1, <3>5, <4>2
      <4> QED BY <1>12, <2>3, <4>2, <4>3
    <3>6. CASE ~WithNext
      BY <1>5, <1>12, <2>3, <3>3, <3>4, <3>6
    <3> QED BY <3>5, <3>6
  <2> QED BY <2>2, <2>3
<1> QED BY <1>17, <1>18, <1>21, <1>22, <1>23 DEF HeapInv

\* Every call to its end, and every step that leaves the heap alone.
LEMMA HeapStepKeeps == HeapInv /\ [HeapNext]_heapVars => HeapInv'
<1> SUFFICES ASSUME HeapInv, [HeapNext]_heapVars PROVE HeapInv'
  OBVIOUS
<1>1. ASSUME NEW request \in Requests, kmalloc(request) PROVE HeapInv'
  <2>1. request \in 0..(Word - 1)
    BY HeapAssumption
  <2>2. Align(request) \in Nat
    BY <2>1, AlignType, HeapAssumption
  <2>3. PICK b \in blocks :
          /\ Fits(b, Align(request))
          /\ TakeWhole(b, Align(request)) \/ TakeFront(b, Align(request))
          /\ used' = [used EXCEPT ![b] = TRUE]
          /\ asked' = [asked EXCEPT ![b] = request]
    BY <1>1 DEF kmalloc, FirstFit
  <2> QED BY <2>2, <2>3, TakeWholeKeeps, TakeFrontKeeps
<1>2. ASSUME NEW b \in blocks, kfree(b) PROVE HeapInv'
  BY <1>2, KfreeKeeps
<1>3. CASE UNCHANGED heapVars
  BY <1>3 DEF heapVars, HeapInv, HeapTypeOK, Tiled, DoublyLinked, Coalesced, Separate
<1> QED BY <1>1, <1>2, <1>3 DEF HeapNext

\* The inductive invariant holds however kmalloc and kfree are called
\* (heap.c 14-94).
THEOREM HeapInvariant == HeapSpec => []HeapInv
  BY HeapInitially, HeapStepKeeps, PTL DEF HeapSpec

-----------------------------------------------------------------------------
(* The heap implements Allocator: what callers are granted.                *)

\* heap.c 32 rounds a request above Word - 4 to 0, and the block returned is
\* shorter than what was asked for: without this condition the theorem fails.
NoneWraps == \A request \in Requests : request <= Word - 4

\* What is granted is a block in use, and long enough.
Granted ==
    \A a \in Addr : asked[a] # 0 => a \in blocks /\ used[a] /\ asked[a] <= size[a]

GrantedInv == HeapInv /\ Granted

\* The function Allocator calls "granted".
Grants == [p \in Addr |-> IF p - Header \in blocks THEN asked[p - Header] ELSE 0]

LEMMA HeapNumbers ==
    /\ HEAP_START \in Nat \ {0} /\ HEAP_SIZE \in Nat /\ Header \in Nat \ {0}
    /\ HEAP_END = HEAP_START + HEAP_SIZE /\ HEAP_END \in Nat /\ Word \in Nat
    /\ Requests \subseteq Nat \ {0}
  BY HeapAssumption DEF HEAP_END

-----------------------------------------------------------------------------
(* What a call leaves alone.                                               *)

\* kmalloc hands out one free block and may add a header that nobody holds.
LEMMA KmallocEffect ==
    ASSUME GrantedInv, NoneWraps, NEW request \in Requests, kmalloc(request)
    PROVE  \E b \in blocks :
             /\ ~used[b] /\ request <= size[b]
             /\ asked' = [asked EXCEPT ![b] = request]
             /\ used' = [used EXCEPT ![b] = TRUE]
             /\ blocks \subseteq blocks'
             /\ \A c \in blocks \ {b} : size'[c] = size[c]
             /\ request <= size'[b]
<1>1. HeapInv /\ HeapTypeOK
  BY DEF GrantedInv, HeapInv
<1>2. request \in 0..(Word - 1) /\ request <= Word - 4
  BY HeapAssumption DEF NoneWraps
<1>3. Align(request) \in Nat /\ Align(request) >= request /\ request \in Nat
  BY <1>2, HeapNumbers, AlignType, AlignGrows
<1>4. PICK b \in blocks :
        /\ Fits(b, Align(request))
        /\ TakeWhole(b, Align(request)) \/ TakeFront(b, Align(request))
        /\ used' = [used EXCEPT ![b] = TRUE]
        /\ asked' = [asked EXCEPT ![b] = request]
  BY DEF kmalloc, FirstFit
<1>5. PICK n \in Nat : n = Align(request)
  BY <1>3
<1>6. ~used[b] /\ size[b] >= n /\ size[b] \in Nat /\ request <= size[b] /\ b \in Addr
  BY <1>1, <1>3, <1>4, <1>5, BlockFacts DEF Fits
<1>7. CASE TakeWhole(b, n)
  <2>1. blocks' = blocks /\ size' = size
    BY <1>7 DEF TakeWhole
  <2> QED BY <1>4, <1>6, <2>1
<1>8. CASE TakeFront(b, n)
  <2>1. PICK new : new = b + Header + n
    OBVIOUS
  <2>2. /\ blocks' = blocks \cup {new}
        /\ size' = [size EXCEPT ![new] = size[b] - n - Header, ![b] = n]
    BY <1>8, <2>1 DEF TakeFront
  <2>3. new \notin blocks
    <3> SUFFICES ASSUME new \in blocks PROVE FALSE
      OBVIOUS
    <3>1. size[b] >= n + Header + 4
      BY <1>1, <1>4, <1>5, <1>8, SplitsExactly DEF TakeFront
    <3>2. b \in Nat /\ new > b
      BY <1>1, <2>1, BlockFacts, HeapNumbers
    <3>3. new >= b + Header + size[b]
      BY <1>1, <3>2, NothingBetween
    <3> QED BY <1>6, <2>1, <3>1, <3>2, <3>3, HeapNumbers
  <2>4. size'[b] = n
    BY <1>1, <1>6, <2>2 DEF HeapTypeOK
  <2>5. \A c \in blocks \ {b} : size'[c] = size[c]
    BY <1>1, <2>2, <2>3 DEF HeapTypeOK
  <2> QED BY <1>3, <1>4, <1>5, <1>6, <2>2, <2>4, <2>5
<1> QED BY <1>4, <1>5, <1>7, <1>8

\* kfree touches its own block and free ones.
LEMMA KfreeEffect ==
    ASSUME GrantedInv, NEW b \in blocks, kfree(b)
    PROVE  /\ asked[b] # 0
           /\ asked' = [asked EXCEPT ![b] = 0]
           /\ blocks' \subseteq blocks
           /\ \A c \in blocks \ {b} :
                used[c] => c \in blocks' /\ used'[c] /\ size'[c] = size[c]
<1>1. HeapTypeOK /\ blocks \subseteq Addr
  BY DEF GrantedInv, HeapInv, HeapTypeOK
<1>2. PICK n, p : n = next[b] /\ p = prev[b]
  OBVIOUS
<1> DEFINE WithNext == n # NULL /\ ~used[n]
           WithPrev == p # NULL /\ ~used[p]
<1>3. PICK k, gone :
        /\ k = IF WithPrev THEN p ELSE b
        /\ gone = {a \in {n} : WithNext} \cup {a \in {b} : WithPrev}
  OBVIOUS
<1>4. /\ asked[b] # 0
      /\ asked' = [asked EXCEPT ![b] = 0]
      /\ used' = [used EXCEPT ![b] = FALSE]
      /\ blocks' = blocks \ gone
      /\ size' = [a \in Addr |->
                    IF a \in gone THEN 0
                    ELSE IF a = k
                    THEN size[a] + (IF WithPrev THEN Header + size[b] ELSE 0)
                                 + (IF WithNext THEN Header + size[n] ELSE 0)
                    ELSE size[a]]
  BY <1>2, <1>3 DEF kfree
<1>5. ASSUME NEW c \in blocks \ {b}, used[c]
      PROVE  c \in blocks' /\ used'[c] /\ size'[c] = size[c]
  <2>1. c \notin gone /\ c # k /\ c \in Addr
    BY <1>1, <1>3, <1>5
  <2>2. used'[c] = used[c]
    BY <1>1, <1>4, <2>1 DEF HeapTypeOK
  <2> QED BY <1>4, <1>5, <2>1, <2>2
<1> QED BY <1>4, <1>5
-----------------------------------------------------------------------------
(* The invariant.                                                          *)

LEMMA GrantedInitially == heap_init => GrantedInv
<1> SUFFICES ASSUME heap_init PROVE GrantedInv
  OBVIOUS
<1>1. \A a \in Addr : asked[a] = 0
  BY DEF heap_init, Zero
<1> QED BY <1>1, HeapInitially DEF GrantedInv, Granted

LEMMA GrantedKept == GrantedInv /\ NoneWraps /\ [HeapNext]_heapVars => GrantedInv'
<1> SUFFICES ASSUME GrantedInv, NoneWraps, [HeapNext]_heapVars PROVE GrantedInv'
  OBVIOUS
<1>1. HeapInv'
  BY HeapStepKeeps DEF GrantedInv
<1>2. HeapTypeOK /\ Granted /\ Addr = Addr' /\ blocks \subseteq Addr
  BY DEF GrantedInv, HeapInv, HeapTypeOK, Addr, HEAP_END
<1>3. ASSUME NEW request \in Requests, kmalloc(request) PROVE Granted'
  <2>1. PICK b \in blocks :
          /\ ~used[b] /\ request <= size[b]
          /\ asked' = [asked EXCEPT ![b] = request]
          /\ used' = [used EXCEPT ![b] = TRUE]
          /\ blocks \subseteq blocks'
          /\ \A c \in blocks \ {b} : size'[c] = size[c]
          /\ request <= size'[b]
    BY <1>3, KmallocEffect
  <2> SUFFICES ASSUME NEW a \in Addr, asked'[a] # 0
               PROVE  a \in blocks' /\ used'[a] /\ asked'[a] <= size'[a]
    BY <1>2 DEF Granted
  <2>2. CASE a = b
    BY <1>2, <2>1, <2>2 DEF HeapTypeOK
  <2>3. CASE a # b
    <3>1. asked'[a] = asked[a] /\ used'[a] = used[a]
      BY <1>2, <2>1, <2>3 DEF HeapTypeOK
    <3>2. a \in blocks /\ used[a] /\ asked[a] <= size[a]
      BY <1>2, <3>1 DEF Granted
    <3> QED BY <2>1, <2>3, <3>1, <3>2
  <2> QED BY <2>2, <2>3
<1>4. ASSUME NEW b \in blocks, kfree(b) PROVE Granted'
  <2>1. /\ asked' = [asked EXCEPT ![b] = 0]
        /\ \A c \in blocks \ {b} :
             used[c] => c \in blocks' /\ used'[c] /\ size'[c] = size[c]
    BY <1>4, KfreeEffect
  <2> SUFFICES ASSUME NEW a \in Addr, asked'[a] # 0
               PROVE  a \in blocks' /\ used'[a] /\ asked'[a] <= size'[a]
    BY <1>2 DEF Granted
  <2>2. a # b /\ asked'[a] = asked[a]
    BY <1>2, <2>1 DEF HeapTypeOK
  <2>3. a \in blocks /\ used[a] /\ asked[a] <= size[a]
    BY <1>2, <2>2 DEF Granted
  <2> QED BY <2>1, <2>2, <2>3
<1>5. ASSUME UNCHANGED heapVars PROVE Granted'
  BY <1>2, <1>5 DEF heapVars, Granted
<1>6. Granted'
  BY <1>3, <1>4, <1>5 DEF HeapNext
<1> QED BY <1>1, <1>6 DEF GrantedInv
-----------------------------------------------------------------------------
(* The refinement.                                                         *)

\* What a grant is, in terms of the blocks.
LEMMA GrantsAreBlocks ==
    ASSUME GrantedInv, NEW q \in Addr, Grants[q] # 0
    PROVE  \E c \in blocks : /\ q = c + Header /\ Grants[q] = asked[c]
                             /\ used[c] /\ asked[c] \in Nat
                             /\ asked[c] <= size[c]
<1>1. PICK c : c = q - Header
  OBVIOUS
<1>2. c \in blocks /\ Grants[q] = asked[c]
  BY <1>1 DEF Grants
<1>3. c \in Addr /\ c \in Nat
  BY <1>2, BlockFacts DEF GrantedInv
<1>4. q = c + Header
  BY <1>1, <1>3, HeapNumbers DEF Addr
<1>5. used[c] /\ asked[c] <= size[c] /\ asked[c] \in Nat
  BY <1>2, <1>3, HeapNumbers DEF GrantedInv, Granted, HeapInv, HeapTypeOK
<1> QED BY <1>2, <1>4, <1>5

\* A successful kmalloc grants the bytes behind the header.
LEMMA KmallocGrants ==
    ASSUME GrantedInv, NoneWraps, NEW request \in Requests, kmalloc(request)
    PROVE  \E p \in Addr :
             /\ Grants[p] = 0
             /\ p..(p + request - 1) \subseteq Addr
             /\ \A q \in Addr : (q..(q + Grants[q] - 1)) \cap (p..(p + request - 1)) = {}
             /\ Grants' = [Grants EXCEPT ![p] = request]
<1>1. PICK b \in blocks :
        /\ ~used[b] /\ request <= size[b]
        /\ asked' = [asked EXCEPT ![b] = request]
        /\ blocks \subseteq blocks'
  BY KmallocEffect
<1>2. /\ b \in Addr /\ b \in Nat /\ b >= HEAP_START /\ size[b] \in Nat
      /\ b + Header + size[b] <= HEAP_END
  BY BlockFacts DEF GrantedInv
<1>3. request \in Nat /\ request >= 1
  BY HeapNumbers
<1>4. HeapTypeOK /\ Granted /\ Separate
  BY DEF GrantedInv, HeapInv
<1>5. asked[b] = 0
  BY <1>1, <1>2, <1>4 DEF Granted
<1>6. PICK p \in Addr : p = b + Header /\ p - Header = b /\ p \in Nat
  BY <1>1, <1>2, <1>3, HeapNumbers DEF Addr
<1>7. Grants[p] = 0
  BY <1>1, <1>5, <1>6 DEF Grants
<1>8. p..(p + request - 1) \subseteq Addr
  BY <1>1, <1>2, <1>3, <1>6, HeapNumbers DEF Addr
<1>9. ASSUME NEW q \in Addr
      PROVE  (q..(q + Grants[q] - 1)) \cap (p..(p + request - 1)) = {}
  <2>1. q \in Nat
    BY HeapNumbers DEF Addr
  <2>2. CASE Grants[q] = 0
    BY <1>3, <1>6, <2>1, <2>2
  <2>3. CASE Grants[q] # 0
    <3>1. PICK c \in blocks : /\ q = c + Header /\ Grants[q] = asked[c]
                              /\ used[c] /\ asked[c] \in Nat
                              /\ asked[c] <= size[c]
      BY <2>3, GrantsAreBlocks
    <3>2. c \in Nat /\ size[c] \in Nat /\ c # b
      BY <1>1, <3>1, BlockFacts DEF GrantedInv
    <3>3. CASE c < b
      <4>1. c + Header + size[c] <= b
        BY <1>4, <3>3 DEF Separate
      <4> QED BY <1>2, <1>3, <1>6, <3>1, <3>2, <4>1, HeapNumbers
    <3>4. CASE b < c
      <4>1. b + Header + size[b] <= c
        BY <1>4, <3>4 DEF Separate
      <4> QED BY <1>1, <1>2, <1>3, <1>6, <3>1, <3>2, <4>1, HeapNumbers
    <3> QED BY <1>2, <3>2, <3>3, <3>4
  <2> QED BY <2>2, <2>3
<1>10. Grants' = [Grants EXCEPT ![p] = request]
  <2>1. ASSUME NEW q \in Addr, NEW c, c = q - Header
        PROVE  (IF c \in blocks' THEN asked'[c] ELSE 0)
                 = IF q = p THEN request ELSE Grants[q]
    <3>1. q \in Nat
      BY HeapNumbers DEF Addr
    <3>2. CASE q = p
      BY <1>1, <1>2, <1>4, <1>6, <2>1, <3>2 DEF HeapTypeOK
    <3>3. CASE q # p
      <4>1. c # b
        BY <1>2, <1>6, <2>1, <3>1, <3>3, HeapNumbers
      <4>2. c \in Addr => asked'[c] = asked[c]
        BY <1>1, <1>4, <4>1 DEF HeapTypeOK
      <4>3. blocks' \subseteq Addr
        BY HeapStepKeeps DEF HeapNext, GrantedInv, HeapInv, HeapTypeOK, Addr, HEAP_END
      <4>4. c \in blocks' /\ c \notin blocks => asked'[c] = 0
        BY <1>4, <4>2, <4>3 DEF Granted
      <4>5. c \in blocks => c \in blocks' /\ asked'[c] = asked[c]
        BY <1>1, <4>2, <4>3
      <4> QED BY <2>1, <3>3, <4>4, <4>5 DEF Grants
    <3> QED BY <3>2, <3>3
  <2>2. Grants' = [q \in Addr |-> IF q - Header \in blocks' THEN asked'[q - Header] ELSE 0]
    BY DEF Grants, Addr, HEAP_END
  <2> QED BY <2>1, <2>2 DEF Grants
<1> QED BY <1>6, <1>7, <1>8, <1>9, <1>10

\* kfree gives back what its block was granted for, and nothing else.
LEMMA KfreeReleases ==
    ASSUME GrantedInv, NEW b \in blocks, kfree(b)
    PROVE  \E p \in Addr : Grants[p] # 0 /\ Grants' = [Grants EXCEPT ![p] = 0]
<1>1. /\ asked[b] # 0
      /\ asked' = [asked EXCEPT ![b] = 0]
      /\ blocks' \subseteq blocks
      /\ \A c \in blocks \ {b} : used[c] => c \in blocks'
  BY KfreeEffect
<1>2. /\ b \in Addr /\ b \in Nat /\ b >= HEAP_START /\ size[b] \in Nat
      /\ b + Header + size[b] <= HEAP_END
  BY BlockFacts DEF GrantedInv
<1>3. HeapTypeOK /\ Granted
  BY DEF GrantedInv, HeapInv
<1>4. asked[b] \in Nat /\ asked[b] >= 1 /\ asked[b] <= size[b]
  <2>1. asked[b] \in Requests
    BY <1>1, <1>2, <1>3 DEF HeapTypeOK
  <2>2. asked[b] <= size[b]
    BY <1>1, <1>2, <1>3 DEF Granted
  <2>3. asked[b] \in Nat \ {0}
    BY <2>1, HeapNumbers
  <2> QED BY <2>2, <2>3
<1>5. PICK p \in Addr : p = b + Header /\ p - Header = b /\ p \in Nat
  BY <1>2, <1>4, HeapNumbers DEF Addr
<1>6. Grants[p] # 0
  BY <1>1, <1>5 DEF Grants
<1>7. ASSUME NEW q \in Addr, NEW c, c = q - Header
      PROVE  (IF c \in blocks' THEN asked'[c] ELSE 0) = IF q = p THEN 0 ELSE Grants[q]
  <2>1. q \in Nat
    BY HeapNumbers DEF Addr
  <2>2. CASE q = p
    BY <1>1, <1>2, <1>3, <1>5, <1>7, <2>2 DEF HeapTypeOK
  <2>3. CASE q # p
    <3>1. c # b
      BY <1>2, <1>5, <1>7, <2>1, <2>3, HeapNumbers
    <3>2. c \in blocks => c \in Addr /\ asked'[c] = asked[c]
      BY <1>1, <1>3, <3>1 DEF HeapTypeOK
    <3>3. c \in blocks /\ c \notin blocks' => asked[c] = 0
      BY <1>1, <1>3, <3>1, <3>2 DEF Granted
    <3> QED BY <1>1, <1>7, <2>3, <3>2, <3>3 DEF Grants
  <2> QED BY <2>2, <2>3
<1>8. Grants' = [q \in Addr |-> IF q - Header \in blocks' THEN asked'[q - Header] ELSE 0]
  BY DEF Grants, Addr, HEAP_END
<1>9. Grants' = [Grants EXCEPT ![p] = 0]
  <2>1. \A q \in Addr : (IF q - Header \in blocks' THEN asked'[q - Header] ELSE 0)
                           = IF q = p THEN 0 ELSE Grants[q]
    BY <1>7
  <2> QED BY <1>8, <2>1 DEF Grants
<1> QED BY <1>6, <1>9

\* Each step of the heap is a step of Allocator, or changes no grant.
LEMMA StepGrants ==
    GrantedInv /\ NoneWraps /\ [HeapNext]_heapVars => [A!Next]_Grants
<1> SUFFICES ASSUME GrantedInv, NoneWraps, [HeapNext]_heapVars
             PROVE  [A!Next]_Grants
  OBVIOUS
<1>1. ASSUME NEW request \in Requests, kmalloc(request) PROVE A!Next
  BY <1>1, KmallocGrants DEF A!Next, A!Grant, A!Region, Grants
<1>2. ASSUME NEW b \in blocks, kfree(b) PROVE A!Next
  BY <1>2, KfreeReleases DEF A!Next, A!Release, Grants
<1>3. ASSUME UNCHANGED heapVars PROVE UNCHANGED Grants
  BY <1>3 DEF heapVars, Grants, Addr, HEAP_END
<1> QED BY <1>1, <1>2, <1>3 DEF HeapNext

\* Whatever the size of the heap, the requests and the order of the calls, each
\* grant is as long as was asked for and overlaps no other one, provided no
\* request is larger than Word - 4 (heap.c 27-94).
THEOREM HeapImplementsAllocator ==
    NoneWraps /\ HeapSpec => ImplementsAllocator
<1> SUFFICES ASSUME NoneWraps PROVE HeapSpec => ImplementsAllocator
  OBVIOUS
<1>1. heap_init => A!Init
  <2> SUFFICES ASSUME heap_init PROVE A!Init
    OBVIOUS
  <2>1. \A a \in Addr : asked[a] = 0
    BY DEF heap_init, Zero
  <2>2. blocks \subseteq Addr
    BY HeapInitially DEF HeapInv, HeapTypeOK
  <2> QED BY <2>1, <2>2 DEF A!Init
<1>2. heap_init => GrantedInv
  BY GrantedInitially
<1>3. GrantedInv /\ [HeapNext]_heapVars => GrantedInv'
  BY GrantedKept
<1>4. GrantedInv /\ [HeapNext]_heapVars => [A!Next]_Grants
  BY StepGrants
<1> QED BY <1>1, <1>2, <1>3, <1>4, PTL DEF HeapSpec, ImplementsAllocator, A!Spec, Grants
=============================================================================
