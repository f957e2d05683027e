------------------------------ MODULE CachePool ------------------------------
(***************************************************************************)
(* utils/cache.c: a pool of equal elements carved out of one malloc'd      *)
(* area.  The list of free elements is intrusive: the first word of a free *)
(* element is its `next' pointer, and the same word belongs to the client  *)
(* while the element is in use.  An element is named by its index in       *)
(* cache_mem.                                                              *)
(***************************************************************************)
EXTENDS Integers

CONSTANTS Capacity,   \* the number of elements of the pool
          ElemSize,   \* the size of an element
          Requests,   \* the sizes clients ask cache_alloc for
          Heap,       \* the addresses malloc may return (bounds the spill)
          Words       \* what a client may leave in the first word of its memory

Block == 0 .. Capacity - 1

NULL == -1

ASSUME PoolAssumption ==
    /\ Capacity \in Nat
    /\ ElemSize \in Nat
    /\ Requests \subseteq Nat
    /\ Heap \cap Block = {}
    /\ Words \subseteq Int

VARIABLES free_list,  \* struct cache_allocer: the first free element
          next,       \* the first word of every element
          live,       \* the memory clients hold: elements and heap blocks
          parity      \* ghost: of the number of calls of cache_alloc so far

vars == <<free_list, next, live, parity>>
-----------------------------------------------------------------------------
\* A bug to look for: the loop links one element past the area.
InitOffByOne ==
    /\ free_list = Capacity
    /\ next = [b \in Block |-> b - 1]
    /\ live = {}
    /\ parity = 0

\* create_cache_allocer pushes the elements in order, so the last is first.
Init ==
    /\ free_list = Capacity - 1
    /\ next = [b \in Block |-> b - 1]
    /\ live = {}
    /\ parity = 0

\* malloc never returns memory that is in use.
Malloc ==
    \E h \in Heap \ live :
        /\ live' = live \cup {h}
        /\ UNCHANGED <<free_list, next>>

\* A bug to look for: the element handed out stays on the free list.
CacheAllocKeepsHead(size) ==
    /\ parity' = 1 - parity
    /\ IF size <= ElemSize /\ free_list # NULL
       THEN /\ live' = live \cup {free_list}
            /\ UNCHANGED <<free_list, next>>
       ELSE Malloc

CacheAlloc(size) ==
    /\ parity' = 1 - parity
    /\ IF size <= ElemSize /\ free_list # NULL
       THEN /\ live' = live \cup {free_list}
            /\ free_list' = next[free_list]
            /\ UNCHANGED next
       ELSE Malloc

\* The address range test that tells an element from a heap block.
InPool(mem) == mem \in Block

\* A bug to look for: the first address of the area fails the range test.
CacheFreeSkipsFirst(mem) ==
    /\ mem \in live
    /\ UNCHANGED parity
    /\ live' = live \ {mem}
    /\ IF InPool(mem) /\ mem > 0
       THEN /\ next' = [next EXCEPT ![mem] = free_list]
            /\ free_list' = mem
       ELSE UNCHANGED <<free_list, next>>

CacheFree(mem) ==
    /\ mem \in live
    /\ UNCHANGED parity
    /\ live' = live \ {mem}
    /\ IF InPool(mem)
       THEN /\ next' = [next EXCEPT ![mem] = free_list]
            /\ free_list' = mem
       ELSE UNCHANGED <<free_list, next>>

\* A client uses the memory it holds, the word of the intrusive list included.
ClientWrite(b, w) ==
    /\ b \in live \cap Block
    /\ next' = [next EXCEPT ![b] = w]
    /\ UNCHANGED <<free_list, live, parity>>

Next ==
    \/ \E size \in Requests : CacheAlloc(size)
    \/ \E mem \in Block \cup Heap : CacheFree(mem)
    \/ \E b \in Block, w \in Words : ClientWrite(b, w)

Spec == Init /\ [][Next]_vars
-----------------------------------------------------------------------------
TypeOK ==
    /\ free_list \in Block \cup {NULL}
    /\ next \in [Block -> Int]
    /\ live \subseteq Block \cup Heap
    /\ parity \in 0 .. 1

\* s lists the free elements from the last pushed (s[n]) to the first (s[1]).
IsFreeList(n, s) ==
    /\ free_list = IF n = 0 THEN NULL ELSE s[n]
    /\ \A i \in 1 .. n : next[s[i]] = IF i = 1 THEN NULL ELSE s[i - 1]
    /\ \A i, j \in 1 .. n : i # j => s[i] # s[j]
    /\ \A b \in Block : b \notin live <=> \E i \in 1 .. n : s[i] = b

\* The chain that starts at free_list visits every element no client holds,
\* each once, and no other, whatever clients write into the words the chain
\* runs through (cache.c:58-63, 72-76): no element is lost or handed out twice.
FreeListExact ==
    \E n \in 0 .. Capacity : \E s \in [1 .. n -> Block] : IsFreeList(n, s)

Allocator == INSTANCE BlockAllocator WITH used <- live

\* cache.c keeps the promise of an allocator: memory handed out is not in use,
\* and a request that fits spills to malloc only when the pool is exhausted.
ImplementsAllocator == Allocator!Spec
=============================================================================
