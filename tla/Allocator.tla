------------------------------ MODULE Allocator ------------------------------
(***************************************************************************)
(* What kmalloc and kfree promise their callers, without headers or lists: *)
(* each grant is a range of the heap, at least as long as was asked for,   *)
(* that no other grant overlaps.                                           *)
(***************************************************************************)
EXTENDS Integers

CONSTANTS
    Bytes,      \* the addresses of the heap
    Lengths     \* the lengths asked for

VARIABLE granted    \* granted[p]: the length granted at address p, 0 if none

Region(p) == p..(p + granted[p] - 1)

Init == granted = [p \in Bytes |-> 0]

Grant(p, n) ==
    /\ granted[p] = 0
    /\ p..(p + n - 1) \subseteq Bytes
    /\ \A q \in Bytes : Region(q) \cap p..(p + n - 1) = {}
    /\ granted' = [granted EXCEPT ![p] = n]

Release(p) ==
    /\ granted[p] # 0
    /\ granted' = [granted EXCEPT ![p] = 0]

Next == \E p \in Bytes : Release(p) \/ \E n \in Lengths : Grant(p, n)

Spec == Init /\ [][Next]_granted
=============================================================================
