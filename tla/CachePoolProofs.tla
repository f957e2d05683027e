--------------------------- MODULE CachePoolProofs ---------------------------
(***************************************************************************)
(* The pool is exact and implements the allocator, for every capacity,     *)
(* element size, set of requests and of client words.  The invariant names *)
(* the sequence of free elements as a witness: an allocation drops its     *)
(* last element, a free appends one, a client's write is outside it.       *)
(***************************************************************************)
EXTENDS CachePool, FiniteSetTheorems, TLAPS

Inv == TypeOK /\ FreeListExact

LEMMA InitInv == Init => Inv
<1> SUFFICES ASSUME Init PROVE Inv
  OBVIOUS
<1> USE PoolAssumption DEF Init, Block, NULL
<1>1. TypeOK
  BY DEF TypeOK
<1> DEFINE s == [i \in 1 .. Capacity |-> i - 1]
<1>2. s \in [1 .. Capacity -> Block]
  OBVIOUS
<1>3. IsFreeList(Capacity, s)
  <2>1. \A i \in 1 .. Capacity : next[s[i]] = IF i = 1 THEN NULL ELSE s[i - 1]
    OBVIOUS
  <2>2. \A i, j \in 1 .. Capacity : i # j => s[i] # s[j]
    OBVIOUS
  <2>3. \A b \in Block : \E i \in 1 .. Capacity : s[i] = b
    <3> TAKE b \in Block
    <3>1. b + 1 \in 1 .. Capacity /\ s[b + 1] = b
      OBVIOUS
    <3> QED
      BY <3>1
  <2>4. free_list = IF Capacity = 0 THEN NULL ELSE s[Capacity]
    OBVIOUS
  <2> QED
    BY <2>1, <2>2, <2>3, <2>4 DEF IsFreeList
<1>4. FreeListExact
  <2> HIDE DEF s
  <2> QED
    BY <1>2, <1>3 DEF FreeListExact
<1> QED
  BY <1>1, <1>4 DEF Inv

\* Memory from the heap leaves the pool alone.
LEMMA MallocInv ==
    ASSUME Inv, Malloc, parity' \in 0 .. 1 PROVE Inv'
<1> USE PoolAssumption DEF Inv, Malloc
<1>1. TypeOK'
  BY DEF TypeOK
<1>2. PICK n \in 0 .. Capacity : \E s \in [1 .. n -> Block] : IsFreeList(n, s)
  BY DEF FreeListExact
<1>3. PICK s \in [1 .. n -> Block] : IsFreeList(n, s)
  BY <1>2
<1>4. IsFreeList(n, s)'
  BY <1>3 DEF IsFreeList
<1> QED
  BY <1>1, <1>4 DEF FreeListExact, Block

\* An element is taken off the end of the witness.
LEMMA PopInv ==
    ASSUME Inv, free_list # NULL,
           live' = live \cup {free_list}, free_list' = next[free_list],
           UNCHANGED next, parity' \in 0 .. 1
    PROVE  Inv' /\ free_list \in Block \ live
<1> USE PoolAssumption DEF Inv
<1>1. PICK n \in 0 .. Capacity : \E s \in [1 .. n -> Block] : IsFreeList(n, s)
  BY DEF FreeListExact
<1>2. PICK s \in [1 .. n -> Block] : IsFreeList(n, s)
  BY <1>1
<1>3. n > 0 /\ free_list = s[n]
  BY <1>2 DEF IsFreeList
<1>4. free_list \in Block \ live
  BY <1>2, <1>3 DEF IsFreeList
<1> DEFINE m == n - 1
           t == [i \in 1 .. m |-> s[i]]
<1>5. m \in 0 .. Capacity /\ t \in [1 .. m -> Block]
  BY <1>3
<1>6. free_list' = IF m = 0 THEN NULL ELSE t[m]
  BY <1>2, <1>3 DEF IsFreeList
<1>7. IsFreeList(m, t)'
  <2>1. \A i \in 1 .. m : next'[t[i]] = IF i = 1 THEN NULL ELSE t[i - 1]
    BY <1>2, <1>3 DEF IsFreeList
  <2>2. \A i, j \in 1 .. m : i # j => t[i] # t[j]
    BY <1>2, <1>3 DEF IsFreeList
  <2>3. \A b \in Block : b \notin live' <=> \E i \in 1 .. m : t[i] = b
    BY <1>2, <1>3 DEF IsFreeList
  <2> QED
    BY <1>6, <2>1, <2>2, <2>3 DEF IsFreeList, Block
<1>8. TypeOK'
  BY <1>4, <1>6, <1>5 DEF TypeOK, NULL, Block
<1> QED
  BY <1>4, <1>5, <1>7, <1>8 DEF FreeListExact, Block

\* A sequence of distinct elements is no longer than the pool.
LEMMA DistinctBlocks ==
    ASSUME NEW m \in Nat, NEW t \in [1 .. m -> Block],
           \A i, j \in 1 .. m : i # j => t[i] # t[j]
    PROVE  m <= Capacity
<1> USE PoolAssumption
<1>1. IsFiniteSet(1 .. m) /\ Cardinality(1 .. m) = m
  BY FS_Interval
<1>2. IsFiniteSet(Block) /\ Cardinality(Block) = Capacity
  BY FS_Interval DEF Block
<1>3. CASE Capacity < m
  BY <1>1, <1>2, <1>3, FS_PigeonHole
<1> QED
  BY <1>3

\* An element is appended to the witness.
LEMMA PushInv ==
    ASSUME Inv, NEW mem \in live, InPool(mem),
           live' = live \ {mem}, next' = [next EXCEPT ![mem] = free_list],
           free_list' = mem, parity' \in 0 .. 1
    PROVE  Inv'
<1> USE PoolAssumption DEF Inv, InPool
<1>1. PICK n \in 0 .. Capacity : \E s \in [1 .. n -> Block] : IsFreeList(n, s)
  BY DEF FreeListExact
<1>2. PICK s \in [1 .. n -> Block] : IsFreeList(n, s)
  BY <1>1
<1>3. \A i \in 1 .. n : s[i] # mem
  BY <1>2 DEF IsFreeList
<1> DEFINE m == n + 1
           t == [i \in 1 .. m |-> IF i = m THEN mem ELSE s[i]]
<1>4. m \in Nat /\ t \in [1 .. m -> Block]
  OBVIOUS
<1>5. \A i, j \in 1 .. m : i # j => t[i] # t[j]
  BY <1>2, <1>3 DEF IsFreeList
<1>6. IsFreeList(m, t)'
  <2>1. \A i \in 1 .. m : next'[t[i]] = IF i = 1 THEN NULL ELSE t[i - 1]
    BY <1>2, <1>3 DEF IsFreeList, TypeOK
  <2>2. \A b \in Block : b \notin live' <=> \E i \in 1 .. m : t[i] = b
    BY <1>2 DEF IsFreeList
  <2> QED
    BY <1>5, <2>1, <2>2 DEF IsFreeList, Block
<1>7. m \in 0 .. Capacity
  <2>1. m <= Capacity
    BY <1>4, <1>5, DistinctBlocks
  <2> QED
    BY <1>4, <2>1
<1>8. TypeOK'
  BY DEF TypeOK, NULL, Block
<1> QED
  BY <1>4, <1>6, <1>7, <1>8 DEF FreeListExact, Block

\* A client writes to a word the witness does not run through.
LEMMA WriteInv ==
    ASSUME Inv, NEW b \in Block, NEW w \in Words, ClientWrite(b, w)
    PROVE  Inv'
<1> USE PoolAssumption DEF Inv, ClientWrite
<1>1. PICK n \in 0 .. Capacity : \E s \in [1 .. n -> Block] : IsFreeList(n, s)
  BY DEF FreeListExact
<1>2. PICK s \in [1 .. n -> Block] : IsFreeList(n, s)
  BY <1>1
<1>3. \A i \in 1 .. n : s[i] # b
  BY <1>2 DEF IsFreeList
<1>4. IsFreeList(n, s)'
  <2>1. \A i \in 1 .. n : next'[s[i]] = next[s[i]]
    BY <1>3 DEF TypeOK
  <2> QED
    BY <1>2, <2>1 DEF IsFreeList
<1>5. TypeOK'
  BY DEF TypeOK
<1> QED
  BY <1>4, <1>5 DEF FreeListExact, Block

LEMMA FreeInv ==
    ASSUME Inv, NEW mem \in Block \cup Heap, CacheFree(mem)
    PROVE  Inv'
<1>1. CASE InPool(mem)
  BY <1>1, PushInv DEF CacheFree, Inv, TypeOK
<1>2. CASE ~InPool(mem)
  <2> USE <1>2, PoolAssumption DEF Inv, CacheFree, InPool
  <2>1. PICK n \in 0 .. Capacity : \E s \in [1 .. n -> Block] : IsFreeList(n, s)
    BY DEF FreeListExact
  <2>2. PICK s \in [1 .. n -> Block] : IsFreeList(n, s)
    BY <2>1
  <2>3. IsFreeList(n, s)'
    BY <2>2 DEF IsFreeList
  <2> QED
    BY <2>3 DEF FreeListExact, TypeOK, Block
<1> QED
  BY <1>1, <1>2

LEMMA AllocInv ==
    ASSUME Inv, NEW size \in Requests, CacheAlloc(size)
    PROVE  Inv'
<1>1. parity' \in 0 .. 1
  BY DEF Inv, TypeOK, CacheAlloc
<1> QED
  BY <1>1, MallocInv, PopInv DEF CacheAlloc

\* cache.c:20-81. The free list holds exactly the elements nobody uses.
THEOREM PoolExact == Spec => [](TypeOK /\ FreeListExact)
<1>1. Inv /\ [Next]_vars => Inv'
  <2> SUFFICES ASSUME Inv, [Next]_vars PROVE Inv'
    OBVIOUS
  <2>1. CASE \E size \in Requests : CacheAlloc(size)
    BY <2>1, AllocInv
  <2>2. CASE \E mem \in Block \cup Heap : CacheFree(mem)
    BY <2>2, FreeInv
  <2>3. CASE \E b \in Block, w \in Words : ClientWrite(b, w)
    BY <2>3, WriteInv
  <2>4. CASE UNCHANGED vars
    <3> USE <2>4 DEF Inv, vars
    <3>1. \A n, s : IsFreeList(n, s) => IsFreeList(n, s)'
      BY DEF IsFreeList
    <3> QED
      BY <3>1 DEF TypeOK, FreeListExact
  <2> QED
    BY <2>1, <2>2, <2>3, <2>4 DEF Next
<1> QED
  BY InitInv, <1>1, PTL DEF Spec, Inv

\* cache.c:20-81. The head of the free list is NULL or an element of the pool,
\* whatever clients write into their elements.
THEOREM PoolTypes == Spec => []TypeOK
BY PoolExact, PTL
-----------------------------------------------------------------------------
\* A pool with no free element has every element in use.
LEMMA EmptyMeansInUse ==
    ASSUME Inv, free_list = NULL PROVE Block \subseteq live
<1> USE PoolAssumption DEF Inv
<1>1. PICK n \in 0 .. Capacity : \E s \in [1 .. n -> Block] : IsFreeList(n, s)
  BY DEF FreeListExact
<1>2. PICK s \in [1 .. n -> Block] : IsFreeList(n, s)
  BY <1>1
<1>3. n = 0
  BY <1>2 DEF IsFreeList, NULL, Block
<1> QED
  BY <1>2, <1>3 DEF IsFreeList

\* cache.c:53-81. Every step of the pool is a step of the allocator: memory
\* handed out is not in use, and a request that fits goes to malloc only when
\* the pool is exhausted.
THEOREM PoolImplementsAllocator == Spec => ImplementsAllocator
<1>1. Init => Allocator!Init
  BY DEF Init, Allocator!Init
<1>2. Inv /\ [Next]_vars => [Allocator!Next]_<<live, parity>>
  <2> SUFFICES ASSUME Inv, [Next]_vars PROVE [Allocator!Next]_<<live, parity>>
    OBVIOUS
  <2> USE PoolAssumption
  <2>1. ASSUME NEW size \in Requests, CacheAlloc(size) PROVE Allocator!Next
    <3>0. parity' = 1 - parity /\ parity' \in 0 .. 1
      BY <2>1 DEF CacheAlloc, Inv, TypeOK
    <3>1. CASE size <= ElemSize /\ free_list # NULL
      <4>1. free_list \in Block \ live
        BY <2>1, <3>0, <3>1, PopInv DEF CacheAlloc
      <4>2. Allocator!Acquire(free_list, size)
        BY <2>1, <3>1, <4>1 DEF CacheAlloc, Allocator!Acquire
      <4> QED
        BY <3>0, <4>1, <4>2 DEF Allocator!Next
    <3>2. CASE ~(size <= ElemSize /\ free_list # NULL)
      <4>1. PICK h \in Heap \ live : live' = live \cup {h}
        BY <2>1, <3>2 DEF CacheAlloc, Malloc
      <4>2. size > ElemSize \/ Block \subseteq live
        BY <3>2, EmptyMeansInUse
      <4>3. Allocator!Acquire(h, size)
        BY <4>1, <4>2 DEF Allocator!Acquire
      <4> QED
        BY <3>0, <4>3 DEF Allocator!Next
    <3> QED
      BY <3>1, <3>2
  <2>2. ASSUME NEW mem \in Block \cup Heap, CacheFree(mem) PROVE Allocator!Next
    <3>1. Allocator!Release(mem)
      BY <2>2 DEF CacheFree, Allocator!Release
    <3> QED
      BY <2>2, <3>1 DEF Allocator!Next, CacheFree
  <2>3. CASE \E b \in Block, w \in Words : ClientWrite(b, w)
    BY <2>3 DEF ClientWrite
  <2>4. CASE UNCHANGED vars
    BY <2>4 DEF vars
  <2> QED
    BY <2>1, <2>2, <2>3, <2>4 DEF Next
<1>3. Spec => []Inv
  BY PoolExact DEF Inv
<1> QED
  BY <1>1, <1>2, <1>3, PTL DEF Spec, ImplementsAllocator, Allocator!Spec
=============================================================================
