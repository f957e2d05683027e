----------------------------- MODULE MCCachePool -----------------------------
\* A pool of four elements, requests that fit and one that does not, and
\* clients that write any pointer value, NULL or a free element's address.
EXTENDS CachePool, TLC

MCRequests == {1, 4, 5}
MCWords == -1 .. 4

HeapSymmetry == Permutations(Heap)
=============================================================================
