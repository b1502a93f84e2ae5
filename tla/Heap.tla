-------------------------------- MODULE Heap --------------------------------
(***************************************************************************)
(* The kernel heap of heap.c: a doubly linked list of blocks, each with a  *)
(* header in front of its payload.  "blocks" are the addresses where the   *)
(* list has a header; the header fields are functions of the address, zero *)
(* where there is none (the code leaves stale bytes there, which no        *)
(* pointer leads to).  kmalloc and kfree are called by one process at a    *)
(* time and are atomic here.                                               *)
(***************************************************************************)
EXTENDS Integers, FiniteSets

CONSTANTS
    HEAP_START, HEAP_SIZE,  \* heap.h: 0x200000 and 0x100000
    Header,                 \* sizeof(block_header_t): 13, it is packed
    Word,                   \* 2^32: sizes are uint32_t
    Requests                \* sizes asked of kmalloc

ASSUME HeapAssumption ==
    /\ HEAP_START \in Nat \ {0} /\ HEAP_SIZE \in Nat /\ Header \in Nat \ {0}
    /\ HEAP_SIZE > Header
    /\ Word \in Nat /\ Word % 4 = 0
    /\ HEAP_START + HEAP_SIZE <= Word /\ HEAP_SIZE + Header + 4 < Word
    /\ Requests \subseteq 1..(Word - 1)     \* kmalloc(0) returns at once

VARIABLES
    blocks,         \* addresses of the headers on the list
    size, used,     \* the headers
    next, prev,
    asked           \* what the caller asked for, 0 if the block is not his

heapVars == <<blocks, size, used, next, prev, asked>>

NULL == 0
HEAP_END == HEAP_START + HEAP_SIZE
Addr == HEAP_START..(HEAP_END - 1)
heap_start_ptr == HEAP_START
Zero == [a \in Addr |-> 0]

-----------------------------------------------------------------------------
heap_init ==
    /\ blocks = {heap_start_ptr}
    /\ size = [Zero EXCEPT ![heap_start_ptr] = HEAP_SIZE - Header]
    /\ used = [a \in Addr |-> FALSE]
    /\ next = Zero
    /\ prev = Zero
    /\ asked = Zero

\* Round up to a multiple of 4, in 32 bits.
Align(n) == IF n % 4 = 0 THEN n ELSE (n + 4 - (n % 4)) % Word

\* Mutant: blocks in use are handed out as well.
Fits_Used(b, n) == size[b] >= n

Fits(b, n) == ~used[b] /\ size[b] >= n

\* The list, in the order "current" walks it.
Walk ==
    LET at[i \in 1..Cardinality(blocks)] ==
          IF i = 1 THEN heap_start_ptr ELSE next[at[i - 1]]
    IN  at

FirstFit(b, n) ==
    /\ Fits(b, n)
    /\ \E i \in DOMAIN Walk :
         Walk[i] = b /\ \A j \in 1..(i - 1) : ~Fits(Walk[j], n)

\* Mutant: the room the new header takes is forgotten.
Splits_NoHeader(b, n) == size[b] >= n

\* Enough room is left for another header and four bytes.
Splits(b, n) == size[b] >= (n + Header + 4) % Word

TakeWhole(b, n) ==
    /\ ~Splits(b, n)
    /\ UNCHANGED <<blocks, size, next, prev>>

\* Mutant: the new block begins where the payload would without its header.
TakeFront_TooEarly(b, n) ==
    LET new_block == b + n IN
    /\ Splits(b, n)
    /\ blocks' = blocks \cup {new_block}
    /\ size' = [size EXCEPT ![new_block] = size[b] - n - Header, ![b] = n]
    /\ next' = [next EXCEPT ![new_block] = next[b], ![b] = new_block]
    /\ prev' = [a \in Addr |-> IF a = new_block THEN b
                               ELSE IF a = next[b] THEN new_block
                               ELSE prev[a]]

\* Mutant: the block behind the new one keeps pointing back at the old one.
TakeFront_StalePrev(b, n) ==
    LET new_block == b + Header + n IN
    /\ Splits(b, n)
    /\ blocks' = blocks \cup {new_block}
    /\ size' = [size EXCEPT ![new_block] = size[b] - n - Header, ![b] = n]
    /\ next' = [next EXCEPT ![new_block] = next[b], ![b] = new_block]
    /\ prev' = [prev EXCEPT ![new_block] = b]

TakeFront(b, n) ==
    LET new_block == b + Header + n IN
    /\ Splits(b, n)
    /\ blocks' = blocks \cup {new_block}
    /\ size' = [size EXCEPT ![new_block] = size[b] - n - Header, ![b] = n]
    /\ next' = [next EXCEPT ![new_block] = next[b], ![b] = new_block]
    /\ prev' = [a \in Addr |-> IF a = new_block THEN b
                               ELSE IF a = next[b] THEN new_block
                               ELSE prev[a]]

\* A request that fits nowhere returns 0 and changes nothing.
kmalloc(request) ==
    LET n == Align(request) IN
    \E b \in blocks :
        /\ FirstFit(b, n)
        /\ TakeWhole(b, n) \/ TakeFront(b, n)
        /\ used' = [used EXCEPT ![b] = TRUE]
        /\ asked' = [asked EXCEPT ![b] = request]

\* Mutant: the freed block is merged with the next one only.
kfree_ForwardOnly(b) ==
    LET n == next[b]
        WithNext == n # NULL /\ ~used[n]
        after == IF WithNext THEN next[n] ELSE n
    IN
    /\ asked[b] # 0
    /\ asked' = [asked EXCEPT ![b] = 0]
    /\ used' = [used EXCEPT ![b] = FALSE]
    /\ blocks' = IF WithNext THEN blocks \ {n} ELSE blocks
    /\ size' = [size EXCEPT ![b] = IF WithNext THEN @ + Header + size[n] ELSE @]
    /\ next' = [next EXCEPT ![b] = after]
    /\ prev' = [a \in Addr |-> IF a = after /\ a # NULL THEN b ELSE prev[a]]

\* kfree of what kmalloc returned for block b, and not freed since: merge with
\* the next block, then with the previous one, where they are free.
kfree(b) ==
    LET n == next[b]
        p == prev[b]
        WithNext == n # NULL /\ ~used[n]
        WithPrev == p # NULL /\ ~used[p]
        keeper == IF WithPrev THEN p ELSE b
        after  == IF WithNext THEN next[n] ELSE n
        gone   == {a \in {n} : WithNext} \cup {a \in {b} : WithPrev}
    IN
    /\ asked[b] # 0
    /\ asked' = [asked EXCEPT ![b] = 0]
    /\ used' = [used EXCEPT ![b] = FALSE]
    /\ blocks' = blocks \ gone
    /\ size' = [a \in Addr |->
                  IF a \in gone THEN 0
                  ELSE IF a = keeper
                  THEN size[a] + (IF WithPrev THEN Header + size[b] ELSE 0)
                               + (IF WithNext THEN Header + size[n] ELSE 0)
                  ELSE size[a]]
    /\ next' = [a \in Addr |-> IF a \in gone THEN NULL
                               ELSE IF a = keeper THEN after ELSE next[a]]
    /\ prev' = [a \in Addr |-> IF a \in gone THEN NULL
                               ELSE IF a = after THEN keeper ELSE prev[a]]

HeapNext ==
    \/ \E request \in Requests : kmalloc(request)
    \/ \E b \in blocks : kfree(b)

HeapSpec == heap_init /\ [][HeapNext]_heapVars

-----------------------------------------------------------------------------
\* Type invariant: the header fields hold addresses and sizes of the heap.
HeapTypeOK ==
    /\ blocks \subseteq Addr
    /\ size \in [Addr -> 0..HEAP_SIZE]
    /\ used \in [Addr -> BOOLEAN]
    /\ next \in [Addr -> Addr \cup {NULL}]
    /\ prev \in [Addr -> Addr \cup {NULL}]
    /\ asked \in [Addr -> Requests \cup {0}]

\* The blocks tile the heap: each one ends where the next one on the list
\* begins, and the last one where the heap ends, so that no byte is lost or
\* belongs to two blocks after any sequence of splits and merges (heap.c 41-54,
\* 80-93).
Tiled ==
    /\ heap_start_ptr \in blocks
    /\ \A b \in blocks :
         b + Header + size[b] = IF next[b] = NULL THEN HEAP_END ELSE next[b]

\* The two directions of the list agree (heap.c 47-53, 82-92).
DoublyLinked ==
    /\ prev[heap_start_ptr] = NULL
    /\ \A b \in blocks : next[b] # NULL => next[b] \in blocks /\ prev[next[b]] = b
    /\ \A b \in blocks \ {heap_start_ptr} :
         prev[b] \in blocks /\ next[prev[b]] = b

\* No two neighbours are free: kfree leaves nothing unmerged, and kmalloc
\* never splits off a block in front of a free one (heap.c 79-93).
Coalesced ==
    \A b \in blocks : next[b] # NULL => used[b] \/ used[next[b]]

A == INSTANCE Allocator WITH
        Bytes   <- Addr,
        Lengths <- Requests,
        granted <- [p \in Addr |-> IF p - Header \in blocks
                                   THEN asked[p - Header] ELSE 0]

\* Callers see an allocator: each grant is as long as was asked for and overlaps
\* no other one, whatever splitting and merging goes on behind (heap.c 27-94).
ImplementsAllocator == A!Spec
=============================================================================
