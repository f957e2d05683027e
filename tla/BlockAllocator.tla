--------------------------- MODULE BlockAllocator ---------------------------
(***************************************************************************)
(* What the users of utils/cache_alloc.h rely on, with no free list in it: *)
(* an allocation hands out memory nobody else holds, and a request that    *)
(* fits a pool element goes to the heap only when every pool element is    *)
(* in use.  An allocation flips `parity': one that hands out memory which  *)
(* is in use would otherwise look like no step at all.                     *)
(***************************************************************************)
EXTENDS Integers

CONSTANTS Block,      \* the pool's elements
          Heap,       \* the addresses malloc may return
          ElemSize,   \* the size of a pool element
          Requests    \* the sizes that are asked for

VARIABLES used,       \* the memory that is handed out
          parity      \* of the number of allocations so far

Init == used = {} /\ parity = 0

Acquire(a, size) ==
    /\ a \in (Block \cup Heap) \ used
    /\ a \in Block => size <= ElemSize
    /\ a \in Heap => size > ElemSize \/ Block \subseteq used
    /\ used' = used \cup {a}

Release(a) ==
    /\ a \in used
    /\ used' = used \ {a}

Next ==
    \/ /\ \E a \in Block \cup Heap, size \in Requests : Acquire(a, size)
       /\ parity' = 1 - parity
    \/ /\ \E a \in Block \cup Heap : Release(a)
       /\ UNCHANGED parity

Spec == Init /\ [][Next]_<<used, parity>>
=============================================================================
