------------------------- MODULE RedisWrapperProofs -------------------------
(***************************************************************************)
(* The mutex of a connection keeps workers apart, for any number of        *)
(* workers, connections and commands; what a worker has read of the        *)
(* connection before it took the mutex plays no part in it.                *)
(***************************************************************************)
EXTENDS RedisWrapper, SequenceTheorems, TLAPS
-----------------------------------------------------------------------------
(* The work queue keeps its types, whatever the requests are.              *)

LEMMA PoolInitType ==
    ASSUME PoolInit
    PROVE  PoolTypeOK(Work)
BY DEF PoolInit, PoolTypeOK

\* A request that is queued is a request.
LEMMA SubmitType ==
    ASSUME NEW work \in Work, PoolTypeOK(Work), Submit(work)
    PROVE  PoolTypeOK(Work)'
BY AppendProperties DEF Submit, PoolTypeOK

\* What a worker takes is a request of the queue.
LEMMA TakeType ==
    ASSUME NEW t \in Threads, PoolTypeOK(Work), Take(t)
    PROVE  PoolTypeOK(Work)' /\ Head(queue) \in Work
<1>1. Head(queue) \in Work /\ Tail(queue) \in Seq(Work)
  BY HeadTailProperties DEF PoolTypeOK, Take
<1> QED
  BY <1>1 DEF PoolTypeOK, Take

\* What a worker is done with is the request it ran.
LEMMA CompleteType ==
    ASSUME NEW t \in Threads, PoolTypeOK(Work), Complete(t), job[t] # NoWork
    PROVE  PoolTypeOK(Work)'
<1>1. job[t] \in Work
  BY DEF PoolTypeOK
<1>2. Append(done, job[t]) \in Seq(Work)
  BY <1>1, AppendProperties DEF PoolTypeOK
<1> QED
  BY <1>2 DEF PoolTypeOK, Complete

\* What the loop thread calls back is a request.
LEMMA DeliverType ==
    ASSUME PoolTypeOK(Work), Deliver, done # <<>>
    PROVE  PoolTypeOK(Work)' /\ Head(done) \in Work
<1>1. Head(done) \in Work /\ Tail(done) \in Seq(Work)
  BY HeadTailProperties DEF PoolTypeOK
<1> QED
  BY <1>1 DEF PoolTypeOK, Deliver

\* Where requests go.
LEMMA SubmitQueue ==
    ASSUME NEW work \in Work, PoolTypeOK(Work), Submit(work)
    PROVE  /\ Len(queue) \in Nat /\ Len(queue') = Len(queue) + 1
           /\ \A i \in 1 .. Len(queue) : queue'[i] = queue[i]
           /\ queue'[Len(queue) + 1] = work /\ job' = job /\ done' = done
BY AppendProperties DEF Submit, PoolTypeOK

LEMMA TakeQueue ==
    ASSUME NEW t \in Threads, PoolTypeOK(Work), Take(t)
    PROVE  /\ 1 \in 1 .. Len(queue) /\ Len(queue) \in Nat /\ Len(queue') = Len(queue) - 1
           /\ \A i \in 1 .. Len(queue') :
                  i + 1 \in 1 .. Len(queue) /\ queue'[i] = queue[i + 1]
           /\ \A u \in Threads : job'[u] = IF u = t THEN queue[1] ELSE job[u]
<1>1. queue \in Seq(Work) /\ queue # <<>> /\ Len(queue) \in Nat \ {0}
  BY EmptySeq DEF Take, PoolTypeOK
<1>2. Len(queue') = Len(queue) - 1 /\ \A i \in 1 .. Len(queue') : queue'[i] = queue[i + 1]
  BY <1>1, HeadTailProperties DEF Take
<1>3. \A u \in Threads : job'[u] = IF u = t THEN queue[1] ELSE job[u]
  BY <1>1 DEF Take, PoolTypeOK
<1> QED
  BY <1>1, <1>2, <1>3
-----------------------------------------------------------------------------
(* Requests of which there is one at a time.                                *)

\* No request of W is queued or runs.
NoneOf(W) ==
    /\ \A i \in 1 .. Len(queue) : queue[i] \notin W
    /\ \A t \in Threads : job[t] \notin W

\* At most one request of W is queued or runs.
OneOf(W) ==
    /\ \A i, j \in 1 .. Len(queue) : queue[i] \in W /\ queue[j] \in W => i = j
    /\ \A t, u \in Threads : job[t] \in W /\ job[u] \in W => t = u
    /\ \A i \in 1 .. Len(queue), t \in Threads : ~(queue[i] \in W /\ job[t] \in W)

LEMMA SubmitCounts ==
    ASSUME NEW work \in Work, NEW W, PoolTypeOK(Work), Submit(work)
    PROVE  /\ work \notin W /\ NoneOf(W) => NoneOf(W)'
           /\ work \notin W /\ OneOf(W) => OneOf(W)'
           /\ NoneOf(W) => OneOf(W)'
<1>1. /\ queue \in Seq(Work) /\ Len(queue') = Len(queue) + 1 /\ Len(queue) \in Nat
      /\ \A i \in 1 .. Len(queue) : queue'[i] = queue[i]
      /\ queue'[Len(queue) + 1] = work /\ job' = job
  BY AppendProperties DEF Submit, PoolTypeOK
<1> QED
  BY <1>1 DEF NoneOf, OneOf

LEMMA TakeCounts ==
    ASSUME NEW t \in Threads, NEW W, PoolTypeOK(Work), Take(t), NoWork \notin W
    PROVE  /\ NoneOf(W) => NoneOf(W)'
           /\ OneOf(W) => OneOf(W)'
<1>1. /\ queue \in Seq(Work) /\ queue # <<>> /\ Len(queue) \in Nat \ {0}
      /\ Len(queue') = Len(queue) - 1
      /\ \A i \in 1 .. Len(queue') : queue'[i] = queue[i + 1]
      /\ \A u \in Threads : job'[u] = IF u = t THEN queue[1] ELSE job[u]
  BY EmptySeq, HeadTailProperties DEF Take, PoolTypeOK
<1>2. ASSUME NoneOf(W) PROVE NoneOf(W)'
  BY <1>1, <1>2 DEF NoneOf
<1>3. ASSUME OneOf(W) PROVE OneOf(W)'
  <2>1. \A i \in 1 .. Len(queue') : i + 1 \in 1 .. Len(queue) /\ i + 1 # 1
    BY <1>1
  <2>2. 1 \in 1 .. Len(queue)
    BY <1>1
  <2>3. \A i, j \in 1 .. Len(queue') : queue'[i] \in W /\ queue'[j] \in W => i = j
    <3> SUFFICES ASSUME NEW i \in 1 .. Len(queue'), NEW j \in 1 .. Len(queue'),
                        queue'[i] \in W, queue'[j] \in W
                 PROVE  i = j
      OBVIOUS
    <3>1. queue[i + 1] \in W /\ queue[j + 1] \in W
      BY <1>1
    <3>2. i + 1 = j + 1
      BY <1>3, <2>1, <3>1 DEF OneOf
    <3> QED
      BY <3>2
  <2>4. \A u, v \in Threads : job'[u] \in W /\ job'[v] \in W => u = v
    <3>1. /\ job'[t] = queue[1] /\ \A u \in Threads \ {t} : job'[u] = job[u]
          /\ queue[1] \in W => \A u \in Threads : job[u] \notin W
      BY <1>1, <1>3, <2>2 DEF OneOf
    <3>2. \A u, v \in Threads \ {t} : job[u] \in W /\ job[v] \in W => u = v
      BY <1>3 DEF OneOf
    <3> QED
      BY <3>1, <3>2
  <2>5. \A i \in 1 .. Len(queue'), u \in Threads : ~(queue'[i] \in W /\ job'[u] \in W)
    BY <1>1, <1>3, <2>1, <2>2 DEF OneOf
  <2> QED
    BY <2>3, <2>4, <2>5 DEF OneOf
<1> QED
  BY <1>2, <1>3

LEMMA CompleteCounts ==
    ASSUME NEW t \in Threads, NEW W, PoolTypeOK(Work), Complete(t), NoWork \notin W
    PROVE  /\ NoneOf(W) => NoneOf(W)'
           /\ OneOf(W) => OneOf(W)'
           /\ OneOf(W) /\ job[t] \in W => NoneOf(W)'
<1>1. queue' = queue /\ \A u \in Threads : job'[u] = IF u = t THEN NoWork ELSE job[u]
  BY DEF Complete, PoolTypeOK
<1> QED
  BY <1>1 DEF NoneOf, OneOf

\* Nothing of the queue changes that counts when a callback is delivered.
LEMMA DeliverCounts ==
    ASSUME NEW W, UNCHANGED <<queue, job>>
    PROVE  /\ NoneOf(W) => NoneOf(W)'
           /\ OneOf(W) => OneOf(W)'
BY DEF NoneOf, OneOf

\* What is due a callback: what a worker adds, and what a callback leaves.
LEMMA CompleteDone ==
    ASSUME NEW t \in Threads, PoolTypeOK(Work), Complete(t), job[t] # NoWork
    PROVE  \A i \in 1 .. Len(done') :
               \/ i \in 1 .. Len(done) /\ done'[i] = done[i]
               \/ done'[i] = job[t]
<1>1. job[t] \in Work /\ done \in Seq(Work) /\ done' = Append(done, job[t])
  BY DEF PoolTypeOK, Complete
<1> QED
  BY <1>1, AppendProperties

LEMMA DeliverDone ==
    ASSUME PoolTypeOK(Work), Deliver, done # <<>>
    PROVE  /\ 1 \in 1 .. Len(done) /\ Head(done) = done[1]
           /\ \A i \in 1 .. Len(done') :
                  i + 1 \in 1 .. Len(done) /\ done'[i] = done[i + 1]
<1>1. done \in Seq(Work) /\ done' = Tail(done) /\ Len(done) \in Nat \ {0}
  BY EmptySeq DEF PoolTypeOK, Deliver
<1> QED
  BY <1>1, HeadTailProperties
-----------------------------------------------------------------------------
(* Requests of which there is one, the callback that is due included.       *)

\* No request of W is anywhere.
Gone(W) == NoneOf(W) /\ \A i \in 1 .. Len(done) : done[i] \notin W

\* At most one request of W is anywhere.
Once(W) ==
    /\ OneOf(W)
    /\ \A i, j \in 1 .. Len(done) : done[i] \in W /\ done[j] \in W => i = j
    /\ \A i \in 1 .. Len(done) : done[i] \in W => NoneOf(W)

LEMMA SubmitOnce ==
    ASSUME NEW work \in Work, NEW W, PoolTypeOK(Work), Submit(work)
    PROVE  /\ work \notin W /\ Gone(W) => Gone(W)'
           /\ work \notin W /\ Once(W) => Once(W)'
           /\ Gone(W) => Once(W)'
<1>1. done' = done
  BY DEF Submit
<1> QED
  BY <1>1, SubmitCounts DEF Gone, Once

LEMMA TakeOnce ==
    ASSUME NEW t \in Threads, NEW W, PoolTypeOK(Work), Take(t), NoWork \notin W
    PROVE  /\ Gone(W) => Gone(W)'
           /\ Once(W) => Once(W)'
<1>1. done' = done
  BY DEF Take
<1> QED
  BY <1>1, TakeCounts DEF Gone, Once

LEMMA CompleteOnce ==
    ASSUME NEW t \in Threads, NEW W, PoolTypeOK(Work), Complete(t),
           job[t] # NoWork, NoWork \notin W
    PROVE  /\ Gone(W) => Gone(W)'
           /\ Once(W) => Once(W)'
<1>1. /\ done \in Seq(Work) /\ job[t] \in Work /\ Len(done) \in Nat
      /\ Len(done') = Len(done) + 1 /\ done'[Len(done) + 1] = job[t]
      /\ \A i \in 1 .. Len(done) : done'[i] = done[i]
  BY AppendProperties DEF PoolTypeOK, Complete
<1>2. ASSUME Gone(W) PROVE Gone(W)'
  <2>1. job[t] \notin W
    BY <1>2 DEF Gone, NoneOf
  <2> QED
    BY <1>1, <1>2, <2>1, CompleteCounts DEF Gone
<1>3. ASSUME Once(W), job[t] \notin W PROVE Once(W)'
  BY <1>1, <1>3, CompleteCounts DEF Once
<1>4. ASSUME Once(W), job[t] \in W PROVE Once(W)'
  <2>1. \A i \in 1 .. Len(done) : done[i] \notin W
    BY <1>4 DEF Once, NoneOf
  <2>2. NoneOf(W)' /\ OneOf(W)'
    BY <1>4, CompleteCounts DEF Once
  <2> QED
    BY <1>1, <2>1, <2>2 DEF Once
<1> QED
  BY <1>2, <1>3, <1>4

LEMMA DeliverOnce ==
    ASSUME NEW W, PoolTypeOK(Work), Deliver, done # <<>>
    PROVE  /\ Gone(W) => Gone(W)'
           /\ Once(W) => Once(W)'
           /\ Once(W) /\ Head(done) \in W => Gone(W)'
<1>1. /\ 1 \in 1 .. Len(done) /\ Head(done) = done[1]
      /\ \A i \in 1 .. Len(done') : i + 1 \in 1 .. Len(done) /\ done'[i] = done[i + 1]
  BY DeliverDone
<1>2. (NoneOf(W) => NoneOf(W)') /\ (OneOf(W) => OneOf(W)')
  BY DeliverCounts DEF Deliver
<1>3. ASSUME Gone(W) PROVE Gone(W)'
  BY <1>1, <1>2, <1>3 DEF Gone
<1>4. ASSUME Once(W) PROVE Once(W)'
  BY <1>1, <1>2, <1>4 DEF Once
<1>5. ASSUME Once(W), Head(done) \in W PROVE Gone(W)'
  <2>1. \A i \in 1 .. Len(done') : i + 1 # 1 /\ done'[i] \notin W
    BY <1>1, <1>5 DEF Once
  <2> QED
    BY <1>1, <1>2, <1>5, <2>1 DEF Gone, Once
<1> QED
  BY <1>3, <1>4, <1>5
-----------------------------------------------------------------------------
(* The connections.                                                         *)

\* A worker inside a connection runs a command or a close, and the mutex is held.
InsideLocked ==
    \A t \in inside :
        /\ job[t] # NoWork
        /\ job[t].op \in {"query", "close"}
        /\ job[t].conn \in locked

Inv == TypeOK /\ InsideLocked /\ Exclusive

LEMMA InitInv == Init => Inv
<1> SUFFICES ASSUME Init PROVE Inv
  OBVIOUS
<1>1. PoolTypeOK(Work)
  BY PoolInitType DEF Init
<1> QED
  BY <1>1 DEF Init, Inv, TypeOK, InsideLocked, Exclusive

LEMMA JobInWork ==
    ASSUME NEW op \in {"connect", "query", "close"}, NEW c \in Conns,
           NEW q \in Requests \cup {NoRequest}
    PROVE  Job(op, c, q) \in Work
BY DEF Job, Work

\* The fields of the request a worker runs.
LEMMA JobFields ==
    ASSUME TypeOK, NEW t \in Threads, job[t] # NoWork
    PROVE  job[t].conn \in Conns /\ job[t].req \in Requests \cup {NoRequest}
<1>1. job[t] \in Work
  BY DEF TypeOK, PoolTypeOK
<1> QED
  BY <1>1 DEF Work

\* Scripts and callbacks leave the workers alone.
LEMMA LoopKeepsInside ==
    ASSUME Inv, UNCHANGED <<job, locked, inside>>
    PROVE  InsideLocked' /\ Exclusive'
BY DEF Inv, InsideLocked, Exclusive

LEMMA ScriptInv ==
    ASSUME Inv, Script
    PROVE  Inv'
<1> USE DEF Inv
<1>1. ASSUME NEW c \in Conns, Connect(c) PROVE Inv'
  <2>1. PoolTypeOK(Work)'
    BY <1>1, JobInWork, SubmitType DEF Connect, TypeOK
  <2>2. UNCHANGED <<job, locked, inside>>
    BY <1>1 DEF Connect, Submit, workers
  <2>3. TypeOK'
    BY <1>1, <2>1 DEF Connect, TypeOK, workers, requests
  <2> QED
    BY <2>2, <2>3, LoopKeepsInside
<1>2. ASSUME NEW c \in Conns, Close(c) PROVE Inv'
  <2>1. PoolTypeOK(Work)'
    BY <1>2, JobInWork, SubmitType DEF Close, TypeOK
  <2>2. UNCHANGED <<job, locked, inside>>
    BY <1>2 DEF Close, Submit, workers
  <2>3. TypeOK'
    BY <1>2, <2>1 DEF Close, TypeOK, workers, requests
  <2> QED
    BY <2>2, <2>3, LoopKeepsInside
<1>3. ASSUME NEW c \in Conns, NEW q \in Requests, Query(c, q) PROVE Inv'
  <2>1. PoolTypeOK(Work)' /\ job' = job
    <3>1. CASE is_closed[c]
      BY <1>3, <3>1 DEF Query, TypeOK, PoolTypeOK, pool
    <3>2. CASE ~is_closed[c]
      <4>1. Submit(Job("query", c, q))
        BY <1>3, <3>2 DEF Query
      <4> QED
        BY <4>1, JobInWork, SubmitType DEF TypeOK, Submit
    <3> QED
      BY <3>1, <3>2
  <2>2. UNCHANGED <<job, locked, inside>>
    BY <1>3, <2>1 DEF Query, workers
  <2>3. TypeOK'
    BY <1>3, <2>1 DEF Query, TypeOK, conn, workers
  <2> QED
    BY <2>2, <2>3, LoopKeepsInside
<1> QED
  BY <1>1, <1>2, <1>3 DEF Script

LEMMA CallbackInv ==
    ASSUME Inv, Callback
    PROVE  Inv'
<1> USE DEF Inv
<1>1. done # <<>> /\ Deliver
  BY DEF Callback, OnConnect, OnQuery, OnClose, Due
<1>2. PoolTypeOK(Work)' /\ Head(done) \in Work
  BY <1>1, DeliverType DEF TypeOK
<1>3. Head(done).conn \in Conns
  BY <1>2 DEF Work
<1>4. UNCHANGED <<job, locked, inside>>
  BY <1>1 DEF Callback, OnConnect, OnQuery, OnClose, Deliver, workers
<1>5. ASSUME OnConnect PROVE TypeOK'
  BY <1>2, <1>3, <1>5 DEF OnConnect, TypeOK, workers, requests
<1>6. ASSUME OnQuery PROVE TypeOK'
  <2>1. answers' \in [Requests -> Nat]
    <3> DEFINE q == Head(done).req
    <3>1. answers' = [answers EXCEPT ![q] = answers[q] + 1] /\ answers \in [Requests -> Nat]
      BY <1>6 DEF OnQuery, TypeOK
    <3> HIDE DEF q
    <3>2. CASE q \in Requests
      <4>1. answers[q] + 1 \in Nat
        BY <3>1, <3>2
      <4> QED
        BY <3>1, <4>1
    <3>3. CASE q \notin Requests
      BY <3>1, <3>3
    <3> QED
      BY <3>2, <3>3
  <2> QED
    BY <1>2, <1>6, <2>1 DEF OnQuery, TypeOK, conn, workers
<1>7. ASSUME OnClose PROVE TypeOK'
  BY <1>2, <1>3, <1>7 DEF OnClose, TypeOK, workers, requests
<1> QED
  BY <1>4, <1>5, <1>6, <1>7, LoopKeepsInside DEF Callback
-----------------------------------------------------------------------------
\* A worker outside any connection takes or drops a request.
LEMMA OutsideKeepsInside ==
    ASSUME Inv, NEW t \in Threads, t \notin inside,
           \A u \in Threads \ {t} : job'[u] = job[u],
           UNCHANGED <<locked, inside>>
    PROVE  InsideLocked' /\ Exclusive'
BY DEF Inv, InsideLocked, Exclusive, TypeOK

\* A worker leaves: the mutexes of the others stay locked.
LEMMA LeaveKeepsInside ==
    ASSUME Inv, NEW t \in inside, inside' = inside \ {t},
           \A u \in Threads \ {t} : job'[u] = job[u],
           locked \ {job[t].conn} \subseteq locked'
    PROVE  InsideLocked' /\ Exclusive'
BY DEF Inv, InsideLocked, Exclusive, TypeOK

\* The other workers keep their requests.
LEMMA CompleteOthers ==
    ASSUME Inv, NEW t \in Threads, Complete(t)
    PROVE  \A u \in Threads \ {t} : job'[u] = job[u]
BY DEF Inv, TypeOK, PoolTypeOK, Complete

LEMMA WorkerInv ==
    ASSUME Inv, NEW t \in Threads, Worker(t)
    PROVE  Inv'
<1> USE DEF Inv
<1>1. ASSUME Start(t) PROVE Inv'
  <2>1. PoolTypeOK(Work)'
    BY <1>1, TakeType DEF Start, TypeOK
  <2>2. t \notin inside /\ \A u \in Threads \ {t} : job'[u] = job[u]
    BY <1>1 DEF Start, Take, InsideLocked, TypeOK, PoolTypeOK
  <2>3. TypeOK'
    BY <1>1, <2>1 DEF Start, TypeOK, conn, workers, requests
  <2> QED
    BY <1>1, <2>2, <2>3, OutsideKeepsInside DEF Start, workers
<1>2. ASSUME NEW ok \in BOOLEAN, ConnectWork(t, ok) PROVE Inv'
  <2>1. PoolTypeOK(Work)' /\ job[t].conn \in Conns
    BY <1>2, CompleteType, JobFields DEF ConnectWork, Running, TypeOK
  <2>2. t \notin inside
    BY <1>2 DEF ConnectWork, Running, InsideLocked
  <2>3. TypeOK'
    BY <1>2, <2>1 DEF ConnectWork, TypeOK, workers, requests
  <2> QED
    BY <1>2, <2>2, <2>3, CompleteOthers, OutsideKeepsInside DEF ConnectWork, workers
<1>3. ASSUME NEW op \in {"query", "close"}, Lock(t, op) PROVE Inv'
  <2>1. job[t].conn \in Conns /\ job[t] # NoWork /\ job[t].op = op /\ t \notin inside
    BY <1>3, JobFields DEF Lock, Waits, Running
  <2>2. TypeOK'
    BY <1>3, <2>1 DEF Lock, TypeOK, PoolTypeOK, pool, conn, requests
  <2>3. InsideLocked'
    BY <1>3, <2>1 DEF Lock, InsideLocked, pool
  <2>4. Exclusive'
    BY <1>3, <2>1 DEF Lock, Exclusive, InsideLocked, pool
  <2> QED
    BY <2>2, <2>3, <2>4
<1>4. ASSUME NEW op \in {"query", "close"}, LockFreed(t, op) PROVE Inv'
  <2>1. t \notin inside /\ job[t] # NoWork
    BY <1>4 DEF LockFreed, Waits, Running
  <2>2. PoolTypeOK(Work)' /\ \A u \in Threads \ {t} : job'[u] = job[u]
    <3>1. CASE UNCHANGED pool
      BY <3>1 DEF TypeOK, PoolTypeOK, pool
    <3>2. CASE Complete(t)
      BY <2>1, <3>2, CompleteType, CompleteOthers DEF TypeOK
    <3> QED
      BY <1>4, <3>1, <3>2 DEF LockFreed
  <2>3. TypeOK'
    BY <1>4, <2>2 DEF LockFreed, TypeOK, conn, requests
  <2> QED
    BY <1>4, <2>1, <2>2, <2>3, OutsideKeepsInside DEF LockFreed
<1>5. ASSUME QueryWork(t) PROVE Inv'
  <2>1. PoolTypeOK(Work)' /\ job[t].conn \in Conns
    BY <1>5, CompleteType, JobFields DEF QueryWork, Running, TypeOK
  <2>2. TypeOK'
    BY <1>5, <2>1 DEF QueryWork, TypeOK, conn, requests
  <2>3. t \in inside /\ inside' = inside \ {t} /\ locked \ {job[t].conn} \subseteq locked'
    BY <1>5 DEF QueryWork
  <2>4. \A u \in Threads \ {t} : job'[u] = job[u]
    BY <1>5, CompleteOthers DEF QueryWork
  <2> QED
    BY <2>2, <2>3, <2>4, LeaveKeepsInside
<1>6. ASSUME ReadContext(t) PROVE Inv'
  <2>1. job[t].conn \in Conns
    BY <1>6, JobFields DEF ReadContext, Running
  <2>2. TypeOK'
    BY <1>6, <2>1 DEF ReadContext, TypeOK, PoolTypeOK, pool, conn, requests
  <2> QED
    BY <1>6, <2>2 DEF ReadContext, InsideLocked, Exclusive, pool
<1>7. ASSUME QueryCrash(t) PROVE Inv'
  BY <1>7 DEF QueryCrash, TypeOK, PoolTypeOK, InsideLocked, Exclusive,
              pool, conn, workers, requests
<1>8. ASSUME CloseWork(t) PROVE Inv'
  <2>1. PoolTypeOK(Work)' /\ job[t].conn \in Conns
    BY <1>8, CompleteType, JobFields DEF CloseWork, Running, TypeOK
  <2>2. TypeOK'
    BY <1>8, <2>1 DEF CloseWork, TypeOK, conn, requests
  <2>3. t \in inside /\ inside' = inside \ {t} /\ locked \ {job[t].conn} \subseteq locked'
    BY <1>8 DEF CloseWork
  <2>4. \A u \in Threads \ {t} : job'[u] = job[u]
    BY <1>8, CompleteOthers DEF CloseWork
  <2> QED
    BY <2>2, <2>3, <2>4, LeaveKeepsInside
<1> QED
  BY <1>1, <1>2, <1>3, <1>4, <1>5, <1>6, <1>7, <1>8 DEF Worker

LEMMA InvHolds == Spec => []Inv
<1>1. Inv /\ [Next]_vars => Inv'
  <2> SUFFICES ASSUME Inv, [Next]_vars PROVE Inv'
    OBVIOUS
  <2>1. CASE Next
    BY <2>1, ScriptInv, CallbackInv, WorkerInv DEF Next
  <2>2. CASE UNCHANGED vars
    BY <2>2 DEF vars, pool, conn, workers, requests, Inv, TypeOK, PoolTypeOK,
                InsideLocked, Exclusive
  <2> QED
    BY <2>1, <2>2
<1> QED
  BY InitInv, <1>1, PTL DEF Spec

\* redis_wrapper.cpp:105-145. No two workers are inside one connection.
THEOREM RedisExclusive == Spec => [](TypeOK /\ Exclusive)
BY InvHolds, PTL DEF Inv

\* redis_wrapper.cpp:40-230. Requests keep their types on their way through the
\* worker pool, those that name freed connections included.
THEOREM RedisTypes == Spec => []TypeOK
BY RedisExclusive, PTL

-----------------------------------------------------------------------------
(* A connection is closed once.  What is_closed says is lost when the       *)
(* connection's memory is freed, and a script may then close it again: the  *)
(* invariant says that such a request never gets past the mutex.            *)

Closes(c) == {w \in Work : w.op = "close" /\ w.conn = c}
Connects(c) == {w \in Work : w.op = "connect" /\ w.conn = c}

\* A close that is due its callback has closed the connection.
DoneClosed ==
    \A i \in 1 .. Len(done) : done[i].op = "close" => closes[done[i].conn] # 0

\* A worker is inside what was connected, and a close is there once.
InsideOpen ==
    \A t \in inside :
        /\ mem[job[t].conn] \in {"live", "freed"}
        /\ job[t].op = "close" => closes[job[t].conn] = 0

\* A connection is made once, and closed after that.
ConnectsOnce ==
    \A c \in Conns :
        /\ OneOf(Connects(c))
        /\ mem[c] # "connecting" => NoneOf(Connects(c))
        /\ closes[c] # 0 => mem[c] \in {"live", "freed"}

\* Until the memory is freed there is one request to close it, made when
\* is_closed was set and gone when it has been served.
ClosesOnce ==
    \A c \in Conns : mem[c] # "freed" =>
        /\ OneOf(Closes(c))
        /\ ~is_closed[c] => NoneOf(Closes(c))
        /\ closes[c] # 0 => is_closed[c] /\ NoneOf(Closes(c))

Counted == DoneClosed /\ InsideOpen /\ ConnectsOnce /\ ClosesOnce /\ ClosedOnce

LEMMA InitCounted == Init => Counted
<1> SUFFICES ASSUME Init PROVE Counted
  OBVIOUS
<1>1. Len(queue) = 0 /\ Len(done) = 0 /\ \A t \in Threads : job[t] = NoWork
  BY DEF Init, PoolInit
<1>2. \A c \in Conns : NoneOf(Closes(c)) /\ NoneOf(Connects(c))
  BY <1>1, RedisAssumption DEF NoneOf, Closes, Connects
<1>3. \A c \in Conns : OneOf(Closes(c)) /\ OneOf(Connects(c))
  BY <1>1, RedisAssumption DEF OneOf, Closes, Connects
<1> QED
  BY <1>1, <1>2, <1>3
  DEF Init, Counted, DoneClosed, InsideOpen, ConnectsOnce, ClosesOnce, ClosedOnce

\* A step that leaves the memory alone and adds no connect or close.
Kept ==
    \A c \in Conns :
        /\ NoneOf(Closes(c)) => NoneOf(Closes(c))'
        /\ OneOf(Closes(c)) => OneOf(Closes(c))'
        /\ NoneOf(Connects(c)) => NoneOf(Connects(c))'
        /\ OneOf(Connects(c)) => OneOf(Connects(c))'

LEMMA SameMemory ==
    ASSUME Counted, Kept, UNCHANGED <<mem, is_closed, closes>>, DoneClosed', InsideOpen'
    PROVE  Counted'
<1>1. ConnectsOnce'
  BY DEF Counted, Kept, ConnectsOnce
<1>2. ClosesOnce'
  BY DEF Counted, Kept, ClosesOnce
<1> QED
  BY <1>1, <1>2 DEF Counted, ClosedOnce

LEMMA CompleteKept ==
    ASSUME TypeOK, NEW t \in Threads, Complete(t)
    PROVE  Kept
<1>1. \A c \in Conns : NoWork \notin Closes(c) /\ NoWork \notin Connects(c)
  BY RedisAssumption DEF Closes, Connects
<1> QED
  BY <1>1, CompleteCounts DEF TypeOK, Kept

\* Memory and requests, step by step.
LEMMA ConnectCounted ==
    ASSUME Inv, Counted, NEW c \in Conns, Connect(c) PROVE Counted'
<1> DEFINE w == Job("connect", c, NoRequest)
<1>1. w \in Work /\ Submit(w) /\ w.op = "connect" /\ w.conn = c
  BY JobInWork DEF Connect, Job
<1> HIDE DEF w
<1>2. /\ mem[c] = "none" /\ mem' = [mem EXCEPT ![c] = "connecting"]
      /\ UNCHANGED <<is_closed, closes, inside, done, job>>
  BY <1>1 DEF Connect, Submit, workers
<1>3. \A d \in Conns : mem'[d] = IF d = c THEN "connecting" ELSE mem[d]
  BY <1>2 DEF Inv, TypeOK
<1>4. ASSUME NEW d \in Conns
      PROVE  /\ NoneOf(Closes(d)) => NoneOf(Closes(d))'
             /\ OneOf(Closes(d)) => OneOf(Closes(d))'
             /\ NoneOf(Connects(d)) => OneOf(Connects(d))'
             /\ d # c /\ NoneOf(Connects(d)) => NoneOf(Connects(d))'
             /\ d # c /\ OneOf(Connects(d)) => OneOf(Connects(d))'
  <2>1. w \notin Closes(d) /\ (d # c => w \notin Connects(d))
    BY <1>1 DEF Closes, Connects
  <2> QED
    BY <1>1, <2>1, SubmitCounts DEF Inv, TypeOK
<1>5. ConnectsOnce'
  BY <1>2, <1>3, <1>4 DEF Counted, ConnectsOnce
<1>6. ClosesOnce'
  BY <1>2, <1>3, <1>4 DEF Counted, ClosesOnce
<1>7. InsideOpen'
  <2>1. \A t \in inside : job[t].conn \in Conns /\ job[t].conn # c
    BY <1>2, JobFields DEF Inv, InsideLocked, TypeOK, Counted, InsideOpen
  <2> QED
    BY <1>2, <1>3, <2>1 DEF Counted, InsideOpen
<1>8. DoneClosed' /\ ClosedOnce'
  BY <1>2 DEF Counted, DoneClosed, ClosedOnce
<1> QED
  BY <1>5, <1>6, <1>7, <1>8 DEF Counted

LEMMA CloseCounted ==
    ASSUME Inv, Counted, NEW c \in Conns, Close(c) PROVE Counted'
<1> DEFINE w == Job("close", c, NoRequest)
<1>1. w \in Work /\ Submit(w) /\ w.op = "close" /\ w.conn = c
  BY JobInWork DEF Close, Job
<1> HIDE DEF w
<1>2. /\ ~is_closed[c] /\ is_closed' = [is_closed EXCEPT ![c] = TRUE]
      /\ UNCHANGED <<mem, closes, inside, done, job>>
  BY <1>1 DEF Close, Submit, workers
<1>3. /\ is_closed'[c]
      /\ \A d \in Conns \ {c} : is_closed'[d] = is_closed[d]
  BY <1>2 DEF Inv, TypeOK
<1>4. ASSUME NEW d \in Conns
      PROVE  /\ NoneOf(Closes(d)) => OneOf(Closes(d))'
             /\ d # c /\ NoneOf(Closes(d)) => NoneOf(Closes(d))'
             /\ d # c /\ OneOf(Closes(d)) => OneOf(Closes(d))'
             /\ NoneOf(Connects(d)) => NoneOf(Connects(d))'
             /\ OneOf(Connects(d)) => OneOf(Connects(d))'
  <2>1. w \notin Connects(d) /\ (d # c => w \notin Closes(d))
    BY <1>1 DEF Closes, Connects
  <2> QED
    BY <1>1, <2>1, SubmitCounts DEF Inv, TypeOK
<1>5. ConnectsOnce'
  BY <1>2, <1>4 DEF Counted, ConnectsOnce
<1>6. ClosesOnce'
  <2> SUFFICES ASSUME NEW d \in Conns, mem[d] # "freed"
               PROVE  /\ OneOf(Closes(d))'
                      /\ ~is_closed'[d] => NoneOf(Closes(d))'
                      /\ closes[d] # 0 => is_closed'[d] /\ NoneOf(Closes(d))'
    BY <1>2 DEF ClosesOnce
  <2>1. CASE d = c
    BY <1>2, <1>3, <1>4, <2>1 DEF Counted, ClosesOnce
  <2>2. CASE d # c
    BY <1>2, <1>3, <1>4, <2>2 DEF Counted, ClosesOnce
  <2> QED
    BY <2>1, <2>2
<1>7. InsideOpen' /\ DoneClosed' /\ ClosedOnce'
  BY <1>2 DEF Counted, InsideOpen, DoneClosed, ClosedOnce
<1> QED
  BY <1>5, <1>6, <1>7 DEF Counted

LEMMA QueryCounted ==
    ASSUME Inv, Counted, NEW c \in Conns, NEW q \in Requests, Query(c, q) PROVE Counted'
<1>1. UNCHANGED <<mem, is_closed, closes, inside>>
  BY DEF Query, conn, workers
<1>2. Kept /\ UNCHANGED <<job, done>>
  <2>1. CASE UNCHANGED pool
    BY <2>1, DeliverCounts DEF pool, Kept
  <2>2. CASE Submit(Job("query", c, q))
    <3> DEFINE w == Job("query", c, q)
    <3>1. w \in Work /\ Submit(w) /\ w.op = "query"
      BY <2>2, JobInWork DEF Job
    <3> HIDE DEF w
    <3>2. \A d \in Conns : w \notin Closes(d) /\ w \notin Connects(d)
      BY <3>1 DEF Closes, Connects
    <3> QED
      BY <3>1, <3>2, SubmitCounts DEF Inv, TypeOK, Kept, Submit
  <2> QED
    BY <2>1, <2>2 DEF Query
<1>3. DoneClosed' /\ InsideOpen'
  BY <1>1, <1>2 DEF Counted, DoneClosed, InsideOpen
<1> QED
  BY <1>1, <1>2, <1>3, SameMemory

LEMMA CallbackCounted ==
    ASSUME Inv, Counted, Callback PROVE Counted'
<1>1. done # <<>> /\ Deliver
  BY DEF Callback, OnConnect, OnQuery, OnClose, Due
<1>2. /\ 1 \in 1 .. Len(done) /\ Head(done) = done[1] /\ Head(done) \in Work
      /\ \A i \in 1 .. Len(done') : i + 1 \in 1 .. Len(done) /\ done'[i] = done[i + 1]
  BY <1>1, DeliverDone, DeliverType DEF Inv, TypeOK
<1>3. UNCHANGED <<queue, job, closes, inside>>
  BY <1>1 DEF Callback, OnConnect, OnQuery, OnClose, Deliver, workers
<1>4. Kept
  BY <1>3, DeliverCounts DEF Kept
<1>5. DoneClosed' /\ ClosedOnce'
  BY <1>2, <1>3 DEF Counted, DoneClosed, ClosedOnce
<1>6. CASE OnConnect \/ OnQuery
  <2>1. UNCHANGED <<mem, is_closed>>
    BY <1>6 DEF OnConnect, OnQuery, conn
  <2>2. InsideOpen'
    BY <1>3, <2>1 DEF Counted, InsideOpen
  <2> QED
    BY <1>3, <1>4, <1>5, <2>1, <2>2, SameMemory
<1>7. CASE OnClose
  <2>1. PICK c \in Conns : c = Head(done).conn
    BY <1>2 DEF Work
  <2>2. /\ mem' = [mem EXCEPT ![c] = "freed"] /\ Head(done).op = "close"
        /\ \E kept \in BOOLEAN : is_closed' = [is_closed EXCEPT ![c] = kept]
    BY <1>7, <2>1 DEF OnClose, Due
  <2>3. \A d \in Conns : mem'[d] = IF d = c THEN "freed" ELSE mem[d]
    BY <2>2 DEF Inv, TypeOK
  <2>4. \A d \in Conns \ {c} : is_closed'[d] = is_closed[d]
    BY <2>2 DEF Inv, TypeOK
  <2>5. closes[c] # 0 /\ mem[c] # "connecting"
    BY <1>2, <2>1, <2>2 DEF Counted, DoneClosed, ConnectsOnce
  <2>6. ConnectsOnce'
    BY <1>3, <1>4, <2>3, <2>5 DEF Counted, ConnectsOnce, Kept
  <2>7. ClosesOnce'
    <3> SUFFICES ASSUME NEW d \in Conns, mem'[d] # "freed"
                 PROVE  /\ OneOf(Closes(d))'
                        /\ ~is_closed'[d] => NoneOf(Closes(d))'
                        /\ closes'[d] # 0 => is_closed'[d] /\ NoneOf(Closes(d))'
      BY DEF ClosesOnce
    <3>1. mem[d] # "freed" /\ is_closed'[d] = is_closed[d] /\ closes'[d] = closes[d]
      BY <1>3, <2>3, <2>4
    <3> QED
      BY <1>4, <3>1 DEF Counted, ClosesOnce, Kept
  <2>8. InsideOpen'
    <3>1. \A t \in inside : job[t].conn \in Conns
      BY JobFields DEF Inv, InsideLocked, TypeOK
    <3> QED
      BY <1>3, <2>3, <3>1 DEF Counted, InsideOpen
  <2> QED
    BY <1>5, <2>6, <2>7, <2>8 DEF Counted
<1> QED
  BY <1>6, <1>7 DEF Callback

\* What a worker finishes without closing: the others stay where they are.
LEMMA FinishCounted ==
    ASSUME Inv, Counted, NEW t \in Threads, Complete(t), job[t] # NoWork,
           job[t].op = "query", UNCHANGED <<mem, is_closed, closes>>,
           inside' \subseteq inside \ {t}
    PROVE  Counted'
<1>1. Kept
  BY CompleteKept DEF Inv
<1>2. DoneClosed'
  BY CompleteDone DEF Inv, TypeOK, Counted, DoneClosed
<1>3. InsideOpen'
  BY CompleteOthers DEF Inv, TypeOK, Counted, InsideOpen
<1> QED
  BY <1>1, <1>2, <1>3, SameMemory

LEMMA ConnectWorkCounted ==
    ASSUME Inv, Counted, NEW t \in Threads, NEW ok \in BOOLEAN, ConnectWork(t, ok)
    PROVE  Counted'
<1>1. PICK c \in Conns : c = job[t].conn
  BY JobFields DEF Inv, ConnectWork, Running
<1>2. /\ job[t] # NoWork /\ job[t].op = "connect" /\ Complete(t)
      /\ mem' = [mem EXCEPT ![c] = IF ok THEN "live" ELSE "refused"]
      /\ UNCHANGED <<is_closed, closes, inside>>
  BY <1>1 DEF ConnectWork, Running, workers
<1>3. job[t] \in Connects(c)
  BY <1>1, <1>2 DEF Inv, TypeOK, PoolTypeOK, Connects
<1>4. mem[c] = "connecting" /\ closes[c] = 0
  BY <1>3 DEF Counted, ConnectsOnce, NoneOf
<1>5. Kept /\ NoneOf(Connects(c))'
  <2>1. NoWork \notin Connects(c)
    BY RedisAssumption DEF Connects
  <2> QED
    BY <1>2, <1>3, <2>1, CompleteKept, CompleteCounts DEF Inv, TypeOK, Counted, ConnectsOnce
<1>6. \A d \in Conns : mem'[d] = IF d = c THEN IF ok THEN "live" ELSE "refused" ELSE mem[d]
  BY <1>2 DEF Inv, TypeOK
<1>7. ConnectsOnce'
  BY <1>2, <1>4, <1>5, <1>6 DEF Counted, ConnectsOnce, Kept
<1>8. ClosesOnce'
  BY <1>2, <1>4, <1>5, <1>6 DEF Counted, ClosesOnce, Kept
<1>9. DoneClosed' /\ ClosedOnce'
  BY <1>2, CompleteDone DEF Inv, TypeOK, Counted, DoneClosed, ClosedOnce
<1>10. InsideOpen'
  <2>1. \A u \in inside : job[u].conn \in Conns /\ job[u].conn # c /\ u # t
    BY <1>2, <1>4, JobFields DEF Inv, InsideLocked, TypeOK, Counted, InsideOpen
  <2> QED
    BY <1>2, <1>6, <2>1, CompleteOthers DEF Inv, TypeOK, Counted, InsideOpen
<1> QED
  BY <1>7, <1>8, <1>9, <1>10 DEF Counted

LEMMA LockCounted ==
    ASSUME Inv, Counted, NEW t \in Threads, NEW op \in {"query", "close"}, Lock(t, op)
    PROVE  Counted'
<1>1. PICK c \in Conns : c = job[t].conn
  BY JobFields DEF Inv, Lock, Waits, Running
<1>2. /\ job[t] # NoWork /\ job[t].op = op /\ mem[c] = "live" /\ inside' = inside \cup {t}
      /\ UNCHANGED <<queue, job, done, mem, is_closed, closes>>
  BY <1>1 DEF Lock, Waits, Running, pool, conn
<1>3. Kept
  BY <1>2, DeliverCounts DEF Kept
<1>4. op = "close" => closes[c] = 0
  <2>1. op = "close" => job[t] \in Closes(c)
    BY <1>1, <1>2 DEF Inv, TypeOK, PoolTypeOK, Closes
  <2> QED
    BY <1>2, <2>1 DEF Counted, ClosesOnce, NoneOf
<1>5. InsideOpen' /\ DoneClosed'
  BY <1>1, <1>2, <1>4 DEF Counted, InsideOpen, DoneClosed
<1> QED
  BY <1>2, <1>3, <1>5, SameMemory

LEMMA CloseWorkCounted ==
    ASSUME Inv, Counted, NEW t \in Threads, CloseWork(t) PROVE Counted'
<1>1. PICK c \in Conns : c = job[t].conn
  BY JobFields DEF Inv, CloseWork, Running
<1>2. /\ job[t] # NoWork /\ job[t].op = "close" /\ t \in inside /\ Complete(t)
      /\ closes' = [closes EXCEPT ![c] = @ + 1] /\ inside' = inside \ {t}
      /\ UNCHANGED <<mem, is_closed>>
  BY <1>1 DEF CloseWork, Running, conn
<1>3. job[t] \in Closes(c) /\ closes[c] = 0 /\ mem[c] \in {"live", "freed"}
  BY <1>1, <1>2 DEF Inv, TypeOK, PoolTypeOK, Closes, Counted, InsideOpen
<1>4. \A d \in Conns : closes'[d] = IF d = c THEN 1 ELSE closes[d]
  BY <1>2, <1>3 DEF Inv, TypeOK
<1>5. Kept /\ (mem[c] # "freed" => NoneOf(Closes(c))' /\ is_closed[c])
  <2>1. NoWork \notin Closes(c)
    BY RedisAssumption DEF Closes
  <2>2. mem[c] # "freed" => is_closed[c] /\ OneOf(Closes(c))
    BY <1>3 DEF Counted, ClosesOnce, NoneOf
  <2> QED
    BY <1>2, <1>3, <2>1, <2>2, CompleteKept, CompleteCounts DEF Inv, TypeOK
<1>6. ConnectsOnce'
  BY <1>2, <1>3, <1>4, <1>5 DEF Counted, ConnectsOnce, Kept
<1>7. ClosesOnce'
  <2> SUFFICES ASSUME NEW d \in Conns, mem[d] # "freed"
               PROVE  /\ OneOf(Closes(d))'
                      /\ ~is_closed[d] => NoneOf(Closes(d))'
                      /\ closes'[d] # 0 => is_closed[d] /\ NoneOf(Closes(d))'
    BY <1>2 DEF ClosesOnce
  <2>1. CASE d = c
    BY <1>5, <2>1 DEF Counted, ClosesOnce, Kept
  <2>2. CASE d # c
    BY <1>4, <1>5, <2>2 DEF Counted, ClosesOnce, Kept
  <2> QED
    BY <2>1, <2>2
<1>8. DoneClosed'
  <2>1. \A i \in 1 .. Len(done) : done[i] \in Work
    BY ElementOfSeq DEF Inv, TypeOK, PoolTypeOK
  <2>2. \A i \in 1 .. Len(done) : done[i].op = "close" => closes'[done[i].conn] # 0
    BY <1>4, <2>1 DEF Counted, DoneClosed, Work
  <2>3. \A i \in 1 .. Len(done') :
            (i \in 1 .. Len(done) /\ done'[i] = done[i]) \/ done'[i] = job[t]
    BY <1>2, CompleteDone DEF Inv, TypeOK
  <2> QED
    BY <1>1, <1>4, <2>2, <2>3 DEF DoneClosed
<1>9. InsideOpen'
  <2>1. \A u \in inside' : u # t /\ job'[u] = job[u] /\ job[u].conn \in Conns /\ job[u].conn # c
    BY <1>1, <1>2, JobFields, CompleteOthers DEF Inv, InsideLocked, Exclusive, TypeOK
  <2> QED
    BY <1>2, <1>4, <2>1 DEF Counted, InsideOpen
<1>10. ClosedOnce'
  BY <1>4 DEF Counted, ClosedOnce
<1> QED
  BY <1>6, <1>7, <1>8, <1>9, <1>10 DEF Counted

LEMMA WorkerCounted ==
    ASSUME Inv, Counted, NEW t \in Threads, Worker(t) PROVE Counted'
<1>1. CASE Start(t)
  <2>1. Take(t) /\ UNCHANGED <<mem, is_closed, closes, inside, done>>
    BY <1>1 DEF Start, Take, conn, workers
  <2>2. Kept
    <3>1. \A c \in Conns : NoWork \notin Closes(c) /\ NoWork \notin Connects(c)
      BY RedisAssumption DEF Closes, Connects
    <3> QED
      BY <2>1, <3>1, TakeCounts DEF Inv, TypeOK, Kept
  <2>3. \A u \in inside : job'[u] = job[u]
    BY <2>1 DEF Take, Inv, InsideLocked, TypeOK, PoolTypeOK
  <2>4. DoneClosed' /\ InsideOpen'
    BY <2>1, <2>3 DEF Counted, DoneClosed, InsideOpen
  <2> QED
    BY <2>1, <2>2, <2>4, SameMemory
<1>2. CASE \E ok \in BOOLEAN : ConnectWork(t, ok)
  BY <1>2, ConnectWorkCounted
<1>3. CASE \E op \in {"query", "close"} : Lock(t, op)
  BY <1>3, LockCounted
<1>4. ASSUME UNCHANGED <<queue, job, done, mem, is_closed, closes, inside>> PROVE Counted'
  <2>1. Kept
    BY <1>4, DeliverCounts DEF Kept
  <2>2. DoneClosed' /\ InsideOpen'
    BY <1>4 DEF Counted, DoneClosed, InsideOpen
  <2> QED
    BY <1>4, <2>1, <2>2, SameMemory
<1>5. CASE \E op \in {"query", "close"} : LockFreed(t, op)
  <2>1. PICK op \in {"query", "close"} : LockFreed(t, op)
    BY <1>5
  <2>2. /\ job[t] # NoWork /\ job[t].op = op /\ t \notin inside
        /\ UNCHANGED <<mem, is_closed, closes, inside>>
    BY <2>1 DEF LockFreed, Waits, Running, conn
  <2>3. CASE UNCHANGED pool
    BY <1>4, <2>2, <2>3 DEF pool
  <2>4. CASE op = "query" /\ Complete(t)
    BY <2>2, <2>4, FinishCounted
  <2> QED
    BY <2>1, <2>3, <2>4 DEF LockFreed
<1>6. CASE QueryWork(t)
  BY <1>6, FinishCounted DEF QueryWork, Running, conn
<1>7. CASE QueryCrash(t) \/ ReadContext(t)
  BY <1>4, <1>7 DEF QueryCrash, ReadContext, pool, conn, workers
<1>8. CASE CloseWork(t)
  BY <1>8, CloseWorkCounted
<1> QED
  BY <1>1, <1>2, <1>3, <1>5, <1>6, <1>7, <1>8 DEF Worker

LEMMA CountedStep ==
    ASSUME Inv, Counted, [Next]_vars
    PROVE  Counted'
<1>1. CASE Script
  BY <1>1, ConnectCounted, CloseCounted, QueryCounted DEF Script
<1>2. CASE Callback
  BY <1>2, CallbackCounted
<1>3. CASE \E t \in Threads : Worker(t)
  BY <1>3, WorkerCounted
<1>4. CASE UNCHANGED vars
  <2>1. UNCHANGED <<queue, job, done, mem, is_closed, closes, inside>>
    BY <1>4 DEF vars, pool, conn, workers
  <2>2. Kept
    BY <2>1, DeliverCounts DEF Kept
  <2>3. DoneClosed' /\ InsideOpen'
    BY <2>1 DEF Counted, DoneClosed, InsideOpen
  <2> QED
    BY <2>1, <2>2, <2>3, SameMemory
<1> QED
  BY <1>1, <1>2, <1>3, <1>4 DEF Next

\* redis_wrapper.cpp:105-121, 193-209. However often and however late scripts
\* call close, and whatever freed memory says of is_closed, a connection is closed
\* once.
THEOREM RedisClosedOnce == Spec => []ClosedOnce
<1>1. Inv /\ Counted /\ [Next]_vars => Counted'
  BY CountedStep
<1>2. Counted => ClosedOnce
  BY DEF Counted
<1> QED
  BY InitCounted, InvHolds, <1>1, <1>2, PTL DEF Spec
-----------------------------------------------------------------------------
(* A command is called back once: it is in one place of the pool,          *)
(* and in none when it has been called back.                               *)

Queries(q) == {w \in Work : w.op = "query" /\ w.req = q}

Answered ==
    /\ asked \subseteq made
    /\ \A q \in Requests :
          /\ Once(Queries(q))
          /\ q \notin asked => Gone(Queries(q)) /\ answers[q] = 0
          /\ answers[q] # 0 => Gone(Queries(q))

LEMMA InitAnswered == Init => Answered
<1> SUFFICES ASSUME Init PROVE Answered
  OBVIOUS
<1>1. Len(queue) = 0 /\ Len(done) = 0 /\ \A t \in Threads : job[t] = NoWork
  BY DEF Init, PoolInit
<1>2. \A q \in Requests : Gone(Queries(q)) /\ Once(Queries(q))
  BY <1>1, RedisAssumption DEF Gone, Once, NoneOf, OneOf, Queries
<1> QED
  BY <1>2 DEF Init, Answered

\* A step of the pool that neither accepts nor calls back a command.
PoolStep ==
    \/ \E w \in Work : w.op # "query" /\ Submit(w)
    \/ \E t \in Threads : Take(t) \/ (job[t] # NoWork /\ Complete(t))
    \/ done # <<>> /\ Deliver
    \/ UNCHANGED pool

LEMMA PoolAnswered ==
    ASSUME Inv, Answered, PoolStep, made \subseteq made', UNCHANGED <<asked, answers>>
    PROVE  Answered'
<1>1. ASSUME NEW q \in Requests
      PROVE  /\ Gone(Queries(q)) => Gone(Queries(q))'
             /\ Once(Queries(q)) => Once(Queries(q))'
  <2>1. NoWork \notin Queries(q)
    BY RedisAssumption DEF Queries
  <2>2. PoolTypeOK(Work)
    BY DEF Inv, TypeOK
  <2>3. ASSUME NEW w \in Work, w.op # "query", Submit(w)
        PROVE  /\ Gone(Queries(q)) => Gone(Queries(q))'
               /\ Once(Queries(q)) => Once(Queries(q))'
    <3>1. w \notin Queries(q)
      BY <2>3 DEF Queries
    <3> QED
      BY <2>2, <2>3, <3>1, SubmitOnce
  <2>4. CASE UNCHANGED pool
    BY <2>4 DEF pool, Gone, Once, NoneOf, OneOf
  <2> QED
    BY <2>1, <2>2, <2>3, <2>4, TakeOnce, CompleteOnce, DeliverOnce DEF PoolStep
<1> QED
  BY <1>1 DEF Answered

LEMMA QueryAnswered ==
    ASSUME Inv, Answered, NEW c \in Conns, NEW q \in Requests, Query(c, q)
    PROVE  Answered' /\ [Interface!Next]_<<asked, answers>>
<1>1. q \notin made /\ made' = made \cup {q} /\ answers' = answers /\ q \notin asked
  BY DEF Query, Answered
<1>2. CASE is_closed[c]
  <2>1. UNCHANGED pool /\ UNCHANGED asked
    BY <1>2 DEF Query
  <2> QED
    BY <1>1, <2>1, PoolAnswered DEF PoolStep
<1>3. CASE ~is_closed[c]
  <2> DEFINE w == Job("query", c, q)
  <2>1. Submit(w) /\ w \in Work /\ w.req = q /\ asked' = asked \cup {q}
    BY <1>3, JobInWork DEF Query, Job
  <2> HIDE DEF w
  <2>2. ASSUME NEW r \in Requests
        PROVE  /\ Gone(Queries(r)) => Once(Queries(r))'
               /\ r # q => (Gone(Queries(r)) => Gone(Queries(r))')
                           /\ (Once(Queries(r)) => Once(Queries(r))')
    <3>1. r # q => w \notin Queries(r)
      BY <2>1 DEF Queries
    <3> QED
      BY <2>1, <3>1, SubmitOnce DEF Inv, TypeOK
  <2>3. Answered'
    BY <1>1, <2>1, <2>2 DEF Answered
  <2>4. Interface!Ask(q)
    BY <1>1, <2>1 DEF Interface!Ask
  <2> QED
    BY <2>3, <2>4 DEF Interface!Next
<1> QED
  BY <1>2, <1>3

LEMMA OnQueryAnswered ==
    ASSUME Inv, Answered, OnQuery
    PROVE  Answered' /\ [Interface!Next]_<<asked, answers>>
<1>1. /\ done # <<>> /\ Deliver /\ Head(done).op = "query"
      /\ answers' = [answers EXCEPT ![Head(done).req] = @ + 1] /\ UNCHANGED <<made, asked>>
  BY DEF OnQuery, Due
<1>2. Head(done) \in Work
  BY <1>1, DeliverType DEF Inv, TypeOK
<1>3. CASE Head(done).req \notin Requests
  <2>1. answers' = answers
    BY <1>1, <1>3 DEF Inv, TypeOK
  <2> QED
    BY <1>1, <2>1, PoolAnswered DEF PoolStep
<1>4. ASSUME NEW q \in Requests, Head(done).req = q
      PROVE  Answered' /\ [Interface!Next]_<<asked, answers>>
  <2>1. Head(done) \in Queries(q) /\ ~Gone(Queries(q))
    <3>1. Head(done) \in Queries(q)
      BY <1>1, <1>2, <1>4 DEF Queries
    <3>2. 1 \in 1 .. Len(done) /\ Head(done) = done[1]
      BY <1>1, DeliverDone DEF Inv, TypeOK
    <3> QED
      BY <3>1, <3>2 DEF Gone
  <2>2. q \in asked /\ answers[q] = 0
    BY <2>1 DEF Answered
  <2>3. answers' = [answers EXCEPT ![q] = 1] /\ answers \in [Requests -> Nat]
    <3>1. answers' = [answers EXCEPT ![q] = answers[q] + 1]
      BY <1>1, <1>4
    <3>2. answers[q] + 1 = 1
      BY <2>2
    <3> QED
      BY <3>1, <3>2 DEF Inv, TypeOK
  <2>4. ASSUME NEW r \in Requests
        PROVE  /\ Gone(Queries(r)) => Gone(Queries(r))'
               /\ Once(Queries(r)) => Once(Queries(r))'
               /\ r = q => Gone(Queries(r))'
    BY <1>1, <2>1, DeliverOnce DEF Inv, TypeOK, Answered
  <2>5. Answered'
    <3>1. \A r \in Requests : answers'[r] = IF r = q THEN 1 ELSE answers[r]
      BY <2>3
    <3>2. \A r \in Requests : r \notin asked => r # q
      BY <2>2
    <3> QED
      BY <1>1, <2>4, <3>1, <3>2 DEF Answered
  <2>6. Interface!Answer(q)
    BY <1>1, <2>2, <2>3 DEF Interface!Answer
  <2> QED
    BY <2>5, <2>6 DEF Interface!Next
<1> QED
  BY <1>3, <1>4

LEMMA NextAnswered ==
    ASSUME Inv, Answered, [Next]_vars
    PROVE  Answered' /\ [Interface!Next]_<<asked, answers>>
<1>1. ASSUME PoolStep, UNCHANGED requests
      PROVE  Answered' /\ [Interface!Next]_<<asked, answers>>
  BY <1>1, PoolAnswered DEF requests
<1>2. CASE Script
  <2>1. ASSUME NEW c \in Conns, Connect(c) \/ Close(c)
        PROVE  PoolStep /\ UNCHANGED requests
    <3>1. PICK op \in {"connect", "close"} : Submit(Job(op, c, NoRequest)) /\ UNCHANGED requests
      BY <2>1 DEF Connect, Close
    <3>2. Job(op, c, NoRequest) \in Work /\ Job(op, c, NoRequest).op # "query"
      BY JobInWork DEF Job
    <3> QED
      BY <3>1, <3>2 DEF PoolStep
  <2> QED
    BY <1>1, <1>2, <2>1, QueryAnswered DEF Script
<1>3. CASE Callback
  <2>1. CASE OnConnect \/ OnClose
    BY <1>1, <2>1 DEF OnConnect, OnClose, Due, PoolStep
  <2> QED
    BY <1>3, <2>1, OnQueryAnswered DEF Callback
<1>4. ASSUME NEW t \in Threads, Worker(t) PROVE PoolStep /\ UNCHANGED requests
  BY <1>4 DEF Worker, Start, ConnectWork, ReadContext, Lock, LockFreed, QueryWork, QueryCrash, CloseWork, Running, Waits, PoolStep
<1>5. CASE UNCHANGED vars
  BY <1>1, <1>5 DEF vars, PoolStep
<1> QED
  BY <1>1, <1>2, <1>3, <1>4, <1>5 DEF Next

\* redis_wrapper.cpp:123-160, 211-231. A callback is called for a command that was accepted,
\* and once, whatever scripts close, however the workers take turns, and with
\* connections freed under queued requests.
THEOREM RedisImplementsInterface == Spec => ImplementsInterface
<1>1. Init => Interface!Init
  BY DEF Init, Interface!Init
<1>2. Inv /\ Answered /\ [Next]_vars => Answered' /\ [Interface!Next]_<<asked, answers>>
  BY NextAnswered
<1> QED
  BY <1>1, <1>2, InitAnswered, InvHolds, PTL DEF Spec, ImplementsInterface, Interface!Spec
-----------------------------------------------------------------------------
(* One worker serves requests in their order: a command is served before    *)
(* the close that was asked for after it, until the memory is freed.        *)

Commands(c) == {w \in Work : w.op = "query" /\ w.conn = c}

Known(c) == mem[c] \in {"live", "freed"}

\* Commands are for connections that were made, and are read afresh.
Prepared ==
    /\ \A c \in held : Known(c)
    /\ \A i \in 1 .. Len(queue) : queue[i].op = "query" => Known(queue[i].conn)
    /\ \A t \in Threads :
          IF job[t] # NoWork /\ job[t].op = "query"
          THEN Known(job[t].conn) ELSE rc[t] = "unread"
    /\ \A c \in Conns : mem[c] = "live" /\ closes[c] = 0 => context[c] = "open"

\* What a lone worker u runs and what is queued, connection by connection.
Ordered(u) ==
    \A c \in Conns : mem[c] # "freed" =>
        /\ \A i, j \in 1 .. Len(queue) :
              queue[i] \in Closes(c) /\ queue[j] \in Commands(c) => j < i
        /\ job[u] \in Closes(c) \/ closes[c] # 0 =>
              \A j \in 1 .. Len(queue) : queue[j] \notin Commands(c)
        /\ closes[c] # 0 => job[u] \notin Commands(c)

\* What u has read of a connection that is not freed, and uses.
ReadOpen(u) ==
    /\ job[u] # NoWork /\ job[u].op = "query" /\ mem[job[u].conn] = "live" =>
          rc[u] \in {"unread", "open"}
    /\ u \in inside /\ job[u].op = "query" => rc[u] = "open" /\ closes[job[u].conn] = 0

Serial(u) ==
    /\ \A t \in Threads \ {u} : job[t] = NoWork
    /\ Ordered(u)
    /\ ReadOpen(u)

LEMMA InitPrepared == Init => Prepared /\ \A u \in Threads : Serial(u)
<1> SUFFICES ASSUME Init PROVE Prepared /\ \A u \in Threads : Serial(u)
  OBVIOUS
<1>1. Len(queue) = 0 /\ \A t \in Threads : job[t] = NoWork
  BY DEF Init, PoolInit
<1>2. \A c \in Conns : NoWork \notin Commands(c) /\ NoWork \notin Closes(c)
  BY RedisAssumption DEF Commands, Closes
<1> QED
  BY <1>1, <1>2 DEF Init, Prepared, Serial, Ordered, ReadOpen

LEMMA PreparedStep ==
    ASSUME Inv, Counted, Prepared, [Next]_vars
    PROVE  Prepared'
<1>0. PoolTypeOK(Work) /\ \A i \in 1 .. Len(queue) : queue[i] \in Work
  BY ElementOfSeq DEF Inv, TypeOK, PoolTypeOK
<1>1. ASSUME NEW c \in Conns, Connect(c) PROVE Prepared'
  <2> DEFINE w == Job("connect", c, NoRequest)
  <2>1. w \in Work /\ Submit(w) /\ w.op = "connect"
    BY <1>1, JobInWork DEF Connect, Job
  <2> HIDE DEF w
  <2>2. /\ mem[c] = "none" /\ mem' = [mem EXCEPT ![c] = "connecting"]
        /\ UNCHANGED <<held, context, rc, closes>>
    BY <1>1 DEF Connect, workers
  <2>3. \A d : Known(d) => Known(d)'
    BY <2>2 DEF Known, Inv, TypeOK
  <2>4. \A d \in Conns : mem'[d] = "live" => mem[d] = "live"
    BY <2>2 DEF Inv, TypeOK
  <2> QED
    BY <1>0, <2>1, <2>2, <2>3, <2>4, SubmitQueue DEF Prepared
<1>2. ASSUME NEW c \in Conns, Close(c) PROVE Prepared'
  <2> DEFINE w == Job("close", c, NoRequest)
  <2>1. w \in Work /\ Submit(w) /\ w.op = "close"
    BY <1>2, JobInWork DEF Close, Job
  <2> HIDE DEF w
  <2>2. UNCHANGED <<mem, held, context, rc, closes>>
    BY <1>2 DEF Close, workers
  <2> QED
    BY <1>0, <2>1, <2>2, SubmitQueue DEF Prepared, Known
<1>3. ASSUME NEW c \in Conns, NEW q \in Requests, Query(c, q) PROVE Prepared'
  <2>1. UNCHANGED <<mem, held, context, rc, closes>> /\ Known(c)
    BY <1>3 DEF Query, conn, workers, Prepared
  <2>2. CASE UNCHANGED pool
    BY <2>1, <2>2 DEF pool, Prepared, Known
  <2>3. CASE Submit(Job("query", c, q))
    <3> DEFINE w == Job("query", c, q)
    <3>1. w \in Work /\ Submit(w) /\ w.conn = c
      BY <2>3, JobInWork DEF Job
    <3> HIDE DEF w
    <3> QED
      BY <1>0, <2>1, <3>1, SubmitQueue DEF Prepared, Known
  <2> QED
    BY <1>3, <2>2, <2>3 DEF Query
<1>4. CASE Callback
  <2>1. done # <<>> /\ Deliver /\ UNCHANGED <<context, rc, closes>>
    BY <1>4 DEF Callback, OnConnect, OnQuery, OnClose, Due, conn, workers
  <2>2. Head(done) \in Work
    BY <1>0, <2>1, DeliverType
  <2>3. UNCHANGED <<queue, job>>
    BY <2>1 DEF Deliver
  <2>4. mem' = mem \/ \E c \in Conns : mem' = [mem EXCEPT ![c] = "freed"]
    BY <1>4, <2>2 DEF Callback, OnConnect, OnQuery, OnClose, Work, conn
  <2>5. \A d \in Conns : Known(d) => Known(d)'
    BY <2>4 DEF Known, Inv, TypeOK
  <2>6. \A d \in Conns : mem'[d] = "live" => mem[d] = "live"
    BY <2>4 DEF Inv, TypeOK
  <2>7. \A d \in held' : Known(d)'
    <3>1. CASE OnConnect
      BY <2>2, <2>5, <3>1 DEF OnConnect, Prepared, Known, Inv, TypeOK
    <3>2. CASE OnQuery \/ OnClose
      BY <2>5, <3>2 DEF OnQuery, OnClose, Prepared, conn, Inv, TypeOK
    <3> QED
      BY <1>4, <3>1, <3>2 DEF Callback
  <2>8. \A t \in Threads : job[t] # NoWork => job[t].conn \in Conns
    BY JobFields DEF Inv
  <2> QED
    BY <1>0, <2>1, <2>3, <2>5, <2>6, <2>7, <2>8 DEF Prepared, Work
<1>5. ASSUME NEW t \in Threads, Start(t) PROVE Prepared'
  <2>1. /\ Take(t) /\ job[t] = NoWork /\ UNCHANGED <<mem, held, context, rc, closes>>
    BY <1>5 DEF Start, Take, conn, workers
  <2>2. rc[t] = "unread" /\ (queue[1].op = "query" => Known(queue[1].conn))
    BY <1>0, <2>1, TakeQueue DEF Prepared
  <2>3. \A c : Known(c)' <=> Known(c)
    BY <2>1 DEF Known
  <2>4. (\A i \in 1 .. Len(queue) : queue[i].op = "query" => Known(queue[i].conn))'
    BY <1>0, <2>1, <2>3, TakeQueue DEF Prepared
  <2>5. job'[t] = queue[1] /\ \A u \in Threads \ {t} : job'[u] = job[u]
    BY <1>0, <2>1, TakeQueue
  <2>6. (\A u \in Threads :
            IF job[u] # NoWork /\ job[u].op = "query"
            THEN Known(job[u].conn) ELSE rc[u] = "unread")'
    BY <2>1, <2>2, <2>3, <2>5 DEF Prepared
  <2>7. /\ \A c \in held' : Known(c)'
        /\ \A c \in Conns : mem'[c] = "live" /\ closes'[c] = 0 => context'[c] = "open"
    BY <2>1, <2>3 DEF Prepared
  <2> QED
    BY <2>4, <2>6, <2>7 DEF Prepared
<1>6. ASSUME NEW t \in Threads, NEW ok \in BOOLEAN, ConnectWork(t, ok) PROVE Prepared'
  <2>1. PICK c \in Conns : c = job[t].conn
    BY <1>6, JobFields DEF Inv, ConnectWork, Running
  <2>2. /\ job[t] # NoWork /\ job[t].op = "connect" /\ Complete(t)
        /\ mem' = [mem EXCEPT ![c] = IF ok THEN "live" ELSE "refused"]
        /\ context' = [context EXCEPT ![c] = IF ok THEN "open" ELSE "none"]
        /\ UNCHANGED <<held, rc, closes>>
    BY <1>6, <2>1 DEF ConnectWork, Running, workers
  <2>3. mem[c] = "connecting"
    <3>1. job[t] \in Connects(c)
      BY <2>1, <2>2 DEF Inv, TypeOK, PoolTypeOK, Connects
    <3> QED
      BY <3>1 DEF Counted, ConnectsOnce, NoneOf
  <2>4. \A d : Known(d) => Known(d)'
    BY <2>2, <2>3 DEF Known, Inv, TypeOK
  <2>5. \A d \in Conns : mem'[d] = "live" /\ closes[d] = 0 => context'[d] = "open"
    BY <2>2 DEF Prepared, Inv, TypeOK
  <2>6. queue' = queue /\ \A v \in Threads : job'[v] = IF v = t THEN NoWork ELSE job[v]
    BY <1>0, <2>2 DEF Complete, PoolTypeOK
  <2> QED
    BY <2>2, <2>4, <2>5, <2>6 DEF Prepared
<1>7. ASSUME NEW t \in Threads, ReadContext(t) PROVE Prepared'
  BY <1>7 DEF ReadContext, Running, pool, conn, Prepared, Known, Inv, TypeOK
<1>8. ASSUME UNCHANGED <<queue, job, rc, mem, held, context, closes>> PROVE Prepared'
  BY <1>8 DEF Prepared, Known
<1>9. ASSUME NEW t \in Threads, job[t] # NoWork, Complete(t), UNCHANGED <<mem, held>>,
             rc' = [rc EXCEPT ![t] = "unread"] \/ (rc' = rc /\ job[t].op = "close"),
             \A c \in Conns : closes'[c] = 0 => closes[c] = 0 /\ context'[c] = context[c]
      PROVE  Prepared'
  <2>1. queue' = queue /\ \A v \in Threads : job'[v] = IF v = t THEN NoWork ELSE job[v]
    BY <1>0, <1>9 DEF Complete, PoolTypeOK
  <2>2. rc'[t] = "unread" /\ \A v \in Threads \ {t} : rc'[v] = rc[v]
    BY <1>9 DEF Prepared, Inv, TypeOK
  <2> QED
    BY <1>9, <2>1, <2>2 DEF Prepared, Known
<1>10. ASSUME NEW t \in Threads, NEW op \in {"query", "close"}, Lock(t, op) \/ LockFreed(t, op)
       PROVE  Prepared'
  <2>1. CASE UNCHANGED <<pool, rc>>
    BY <1>8, <1>10, <2>1 DEF Lock, LockFreed, pool, conn
  <2>2. CASE LockFreed(t, op) /\ Complete(t) /\ rc' = [rc EXCEPT ![t] = "unread"]
    BY <1>9, <2>2 DEF LockFreed, Waits, Running, conn
  <2> QED
    BY <1>10, <2>1, <2>2 DEF Lock, LockFreed
<1>11. ASSUME NEW t \in Threads, QueryWork(t) PROVE Prepared'
  BY <1>9, <1>11 DEF QueryWork, Running, conn
<1>12. ASSUME NEW t \in Threads, CloseWork(t) PROVE Prepared'
  <2>1. PICK c \in Conns : c = job[t].conn
    BY <1>12, JobFields DEF Inv, CloseWork, Running
  <2>2. \A d \in Conns : closes'[d] = 0 => closes[d] = 0 /\ context'[d] = context[d]
    BY <1>12, <2>1 DEF CloseWork, Inv, TypeOK
  <2> QED
    BY <1>9, <1>12, <2>2 DEF CloseWork, Running
<1>13. ASSUME NEW t \in Threads, QueryCrash(t) PROVE Prepared'
  BY <1>8, <1>13 DEF QueryCrash, pool, conn, workers
<1>14. CASE UNCHANGED vars
  BY <1>8, <1>14 DEF vars, pool, conn, workers
<1> QED
  BY <1>1, <1>2, <1>3, <1>4, <1>5, <1>6, <1>7, <1>10, <1>11, <1>12, <1>13, <1>14
  DEF Next, Script, Worker

\* Requests in order, as they are added, taken and done with.
LEMMA SubmitOrdered ==
    ASSUME Inv, NEW u \in Threads, Ordered(u), NEW w \in Work, Submit(w), closes' = closes,
           \A c \in Conns : mem'[c] # "freed" => mem[c] # "freed",
           \A c \in Conns : mem[c] # "freed" /\ w \in Commands(c) =>
               closes[c] = 0 /\ NoneOf(Closes(c))
    PROVE  Ordered(u)'
<1>1. \A c \in Conns : Closes(c)' = Closes(c) /\ Commands(c)' = Commands(c)
  BY DEF Closes, Commands
<1>2. \A c \in Conns : w \in Closes(c) => w \notin Commands(c)
  BY DEF Closes, Commands
<1>3. /\ Len(queue) \in Nat /\ Len(queue') = Len(queue) + 1
      /\ \A i \in 1 .. Len(queue) : queue'[i] = queue[i]
      /\ queue'[Len(queue) + 1] = w /\ job' = job
  BY SubmitQueue DEF Inv, TypeOK
<1> SUFFICES ASSUME NEW c \in Conns, mem[c] # "freed"
             PROVE  /\ \A i, j \in 1 .. Len(queue') :
                          queue'[i] \in Closes(c) /\ queue'[j] \in Commands(c) => j < i
                    /\ job[u] \in Closes(c) \/ closes[c] # 0 =>
                          \A j \in 1 .. Len(queue') : queue'[j] \notin Commands(c)
                    /\ closes[c] # 0 => job[u] \notin Commands(c)
  BY <1>1, <1>3 DEF Ordered
<1>4. w \in Commands(c) => /\ closes[c] = 0 /\ job[u] \notin Closes(c)
                           /\ \A i \in 1 .. Len(queue) : queue[i] \notin Closes(c)
  BY DEF NoneOf
<1> QED
  BY <1>2, <1>3, <1>4 DEF Ordered

LEMMA TakeOrdered ==
    ASSUME Inv, NEW u \in Threads, Ordered(u), Take(u), UNCHANGED <<mem, closes>>
    PROVE  Ordered(u)'
<1>1. \A c \in Conns : Closes(c)' = Closes(c) /\ Commands(c)' = Commands(c)
  BY DEF Closes, Commands
<1>2. /\ 1 \in 1 .. Len(queue) /\ Len(queue') = Len(queue) - 1
      /\ \A i \in 1 .. Len(queue') : i + 1 \in 1 .. Len(queue) /\ queue'[i] = queue[i + 1]
      /\ job'[u] = queue[1]
  BY TakeQueue DEF Inv, TypeOK
<1> QED
  BY <1>1, <1>2 DEF Ordered

\* The lone worker is done with a request.
LEMMA CompleteOrdered ==
    ASSUME Inv, NEW u \in Threads, Ordered(u), Complete(u),
           \A c \in Conns : mem'[c] # "freed" => mem[c] # "freed",
           \A c \in Conns : closes'[c] # 0 => closes[c] # 0 \/ job[u] \in Closes(c)
    PROVE  Ordered(u)'
<1>1. \A c \in Conns : /\ Closes(c)' = Closes(c) /\ Commands(c)' = Commands(c)
                       /\ NoWork \notin Closes(c) /\ NoWork \notin Commands(c)
  BY RedisAssumption DEF Closes, Commands
<1>2. queue' = queue /\ job'[u] = NoWork
  BY DEF Complete, Inv, TypeOK, PoolTypeOK
<1> QED
  BY <1>1, <1>2 DEF Ordered

\* A callback, or a step outside the queue.
LEMMA StillOrdered ==
    ASSUME NEW u \in Threads, Ordered(u), UNCHANGED <<queue, job, closes>>,
           \A c \in Conns : mem'[c] # "freed" => mem[c] # "freed"
    PROVE  Ordered(u)'
BY DEF Ordered, Closes, Commands

LEMMA ScriptSerial ==
    ASSUME Inv, Counted, Prepared, NEW u \in Threads, Serial(u), Script
    PROVE  Serial(u)'
<1> USE DEF Serial
<1>1. ASSUME NEW w \in Work, Submit(w), UNCHANGED <<closes, rc, inside>>,
             \A c \in Conns : mem'[c] # "freed" => mem[c] # "freed",
             \A c \in Conns : Known(c) => mem'[c] = mem[c],
             \A c \in Conns : mem[c] # "freed" /\ w \in Commands(c) =>
                 closes[c] = 0 /\ NoneOf(Closes(c))
      PROVE  Serial(u)'
  <2>1. Ordered(u)' /\ job' = job
    BY <1>1, SubmitOrdered DEF Submit
  <2>2. ReadOpen(u)'
    <3>1. job[u] # NoWork => job[u].conn \in Conns
      BY JobFields DEF Inv
    <3> QED
      BY <1>1, <2>1, <3>1 DEF ReadOpen, Prepared
  <2> QED
    BY <2>1, <2>2
<1>2. ASSUME NEW c \in Conns, Connect(c) PROVE Serial(u)'
  <2> DEFINE w == Job("connect", c, NoRequest)
  <2>1. w \in Work /\ Submit(w) /\ w.op = "connect"
    BY <1>2, JobInWork DEF Connect, Job
  <2> HIDE DEF w
  <2>2. \A d \in Conns : w \notin Commands(d)
    BY <2>1 DEF Commands
  <2>3. mem[c] = "none" /\ mem' = [mem EXCEPT ![c] = "connecting"] /\ UNCHANGED workers
    BY <1>2 DEF Connect
  <2>4. \A d \in Conns : mem'[d] = IF d = c THEN "connecting" ELSE mem[d]
    BY <2>3 DEF Inv, TypeOK
  <2> QED
    BY <1>1, <2>1, <2>2, <2>3, <2>4 DEF Known, workers
<1>3. ASSUME NEW c \in Conns, Close(c) PROVE Serial(u)'
  <2> DEFINE w == Job("close", c, NoRequest)
  <2>1. w \in Work /\ Submit(w) /\ w.op = "close"
    BY <1>3, JobInWork DEF Close, Job
  <2> HIDE DEF w
  <2>2. \A d \in Conns : w \notin Commands(d)
    BY <2>1 DEF Commands
  <2> QED
    BY <1>1, <1>3, <2>1, <2>2 DEF Close, workers
<1>4. ASSUME NEW c \in Conns, NEW q \in Requests, Query(c, q) PROVE Serial(u)'
  <2>1. UNCHANGED <<mem, closes, rc, inside>>
    BY <1>4 DEF Query, conn, workers
  <2>2. CASE is_closed[c]
    <3>1. UNCHANGED <<queue, job>>
      BY <1>4, <2>2 DEF Query, pool
    <3> QED
      BY <2>1, <3>1, StillOrdered DEF ReadOpen
  <2>3. CASE ~is_closed[c]
    <3> DEFINE w == Job("query", c, q)
    <3>1. w \in Work /\ Submit(w) /\ w.conn = c
      BY <1>4, <2>3, JobInWork DEF Query, Job
    <3> HIDE DEF w
    <3>2. mem[c] # "freed" => closes[c] = 0 /\ NoneOf(Closes(c))
      BY <2>3 DEF Counted, ClosesOnce
    <3>3. \A d \in Conns : w \in Commands(d) => d = c
      BY <3>1 DEF Commands
    <3> QED
      BY <1>1, <2>1, <3>1, <3>2, <3>3
  <2> QED
    BY <2>2, <2>3
<1> QED
  BY <1>2, <1>3, <1>4 DEF Script

LEMMA CallbackSerial ==
    ASSUME Inv, NEW u \in Threads, Serial(u), Callback
    PROVE  Serial(u)'
<1>1. done # <<>> /\ Deliver /\ UNCHANGED <<rc, closes, inside>>
  BY DEF Callback, OnConnect, OnQuery, OnClose, Due, workers
<1>2. Head(done) \in Work
  BY <1>1, DeliverType DEF Inv, TypeOK
<1>3. mem' = mem \/ \E c \in Conns : mem' = [mem EXCEPT ![c] = "freed"]
  BY <1>2 DEF Callback, OnConnect, OnQuery, OnClose, Work, conn
<1>4. \A c \in Conns : mem'[c] = mem[c] \/ mem'[c] = "freed"
  BY <1>3 DEF Inv, TypeOK
<1>5. UNCHANGED <<queue, job>>
  BY <1>1 DEF Deliver
<1>6. Ordered(u)'
  BY <1>1, <1>4, <1>5, StillOrdered DEF Serial
<1>7. job[u] # NoWork => job[u].conn \in Conns
  BY JobFields DEF Inv
<1>8. ReadOpen(u)'
  BY <1>1, <1>4, <1>5, <1>7 DEF Serial, ReadOpen
<1> QED
  BY <1>5, <1>6, <1>8 DEF Serial

LEMMA WorkerSerial ==
    ASSUME Inv, Counted, Prepared, NEW u \in Threads, Serial(u), started = {u},
           NEW t \in Threads, Worker(t)
    PROVE  Serial(u)'
<1> USE DEF Serial
<1>0. t = u /\ PoolTypeOK(Work)
  BY DEF Worker, Start, Take, ConnectWork, ReadContext, Lock, LockFreed, QueryWork,
         QueryCrash, CloseWork, Waits, Running, Inv, TypeOK
<1>1. job[u] # NoWork => job[u] \in Work /\ job[u].conn \in Conns
  BY JobFields DEF Inv, TypeOK, PoolTypeOK
<1>2. CASE Start(u)
  <2>1. /\ Take(u) /\ job[u] = NoWork /\ UNCHANGED <<mem, closes, rc, inside>>
    BY <1>2 DEF Start, Take, conn, workers
  <2>2. \A v \in Threads \ {u} : job'[v] = job[v]
    BY <1>0, <2>1, TakeQueue
  <2>3. rc[u] = "unread" /\ u \notin inside
    BY <2>1 DEF Prepared, Inv, InsideLocked
  <2>4. Ordered(u)'
    BY <2>1, TakeOrdered
  <2>5. ReadOpen(u)'
    BY <2>1, <2>3 DEF ReadOpen
  <2> QED
    BY <2>2, <2>4, <2>5
<1>3. ASSUME Complete(u), u \notin inside',
             \A c \in Conns : mem'[c] # "freed" => mem[c] # "freed",
             \A c \in Conns : closes'[c] # 0 => closes[c] # 0 \/ job[u] \in Closes(c)
      PROVE  Serial(u)'
  <2>1. job'[u] = NoWork /\ \A v \in Threads \ {u} : job'[v] = job[v]
    BY <1>0, <1>3 DEF Complete, PoolTypeOK
  <2>2. Ordered(u)'
    BY <1>3, CompleteOrdered
  <2>3. ReadOpen(u)'
    BY <1>3, <2>1 DEF ReadOpen
  <2> QED
    BY <2>1, <2>2, <2>3
<1>4. ASSUME NEW ok \in BOOLEAN, ConnectWork(u, ok) PROVE Serial(u)'
  <2>1. PICK c \in Conns : c = job[u].conn
    BY <1>1, <1>4 DEF ConnectWork, Running
  <2>2. /\ job[u] \in Connects(c) /\ Complete(u) /\ u \notin inside
        /\ mem' = [mem EXCEPT ![c] = IF ok THEN "live" ELSE "refused"]
        /\ UNCHANGED <<closes, inside>>
    BY <1>1, <1>4, <2>1 DEF ConnectWork, Running, Connects, Inv, InsideLocked, workers
  <2>3. mem[c] = "connecting"
    BY <2>2 DEF Counted, ConnectsOnce, NoneOf
  <2>4. \A d \in Conns : mem'[d] # "freed" => mem[d] # "freed"
    BY <2>2, <2>3 DEF Inv, TypeOK
  <2> QED
    BY <1>3, <2>2, <2>4
<1>5. ASSUME UNCHANGED <<queue, job, mem, closes>>, ReadOpen(u)' PROVE Serial(u)'
  BY <1>5, StillOrdered
<1>6. CASE ReadContext(u)
  <2>1. PICK c \in Conns : c = job[u].conn
    BY <1>1, <1>6 DEF ReadContext, Running
  <2>2. /\ job[u] # NoWork /\ job[u].op = "query" /\ rc[u] = "unread"
        /\ rc' = [rc EXCEPT ![u] = context[c]]
        /\ UNCHANGED <<queue, job, mem, closes, inside>>
    BY <1>6, <2>1 DEF ReadContext, Running, pool, conn
  <2>3. u \notin inside
    BY <2>2 DEF ReadOpen
  <2>4. mem[c] = "live" => context[c] = "open"
    <3>1. job[u] \in Commands(c)
      BY <1>1, <2>1, <2>2 DEF Commands
    <3> QED
      BY <3>1 DEF Ordered, Prepared
  <2>5. rc'[u] = context[c]
    BY <2>2 DEF Inv, TypeOK
  <2>6. ReadOpen(u)'
    BY <2>1, <2>2, <2>3, <2>4, <2>5 DEF ReadOpen
  <2> QED
    BY <1>5, <2>2, <2>6
<1>7. ASSUME NEW op \in {"query", "close"}, Lock(u, op) PROVE Serial(u)'
  <2>1. PICK c \in Conns : c = job[u].conn
    BY <1>1, <1>7 DEF Lock, Waits, Running
  <2>2. /\ job[u] # NoWork /\ job[u].op = op /\ mem[c] = "live"
        /\ op = "query" => rc[u] # "unread"
        /\ UNCHANGED <<queue, job, rc, mem, closes>>
    BY <1>7, <2>1 DEF Lock, Waits, Running, pool, conn
  <2>3. op = "query" => closes[c] = 0
    <3>1. op = "query" => job[u] \in Commands(c)
      BY <1>1, <2>1, <2>2 DEF Commands
    <3> QED
      BY <2>2, <3>1 DEF Ordered
  <2>4. ReadOpen(u)'
    BY <2>1, <2>2, <2>3 DEF ReadOpen
  <2> QED
    BY <1>5, <2>2, <2>4
<1>8. ASSUME NEW op \in {"query", "close"}, LockFreed(u, op) PROVE Serial(u)'
  <2>1. u \notin inside /\ UNCHANGED <<mem, closes, inside>>
    BY <1>8 DEF LockFreed, Waits, conn
  <2>2. CASE UNCHANGED <<pool, rc>>
    BY <1>5, <2>1, <2>2 DEF pool, ReadOpen
  <2>3. CASE Complete(u)
    BY <1>3, <2>1, <2>3
  <2> QED
    BY <1>8, <2>2, <2>3 DEF LockFreed
<1>9. CASE QueryWork(u)
  BY <1>3, <1>9 DEF QueryWork, conn
<1>10. CASE QueryCrash(u)
  BY <1>5, <1>10 DEF QueryCrash, pool, conn, workers, ReadOpen
<1>11. CASE CloseWork(u)
  <2>1. PICK c \in Conns : c = job[u].conn
    BY <1>1, <1>11 DEF CloseWork, Running
  <2>2. /\ job[u] \in Closes(c) /\ Complete(u) /\ u \notin inside' /\ mem' = mem
        /\ closes' = [closes EXCEPT ![c] = @ + 1]
    BY <1>1, <1>11, <2>1 DEF CloseWork, Running, Closes
  <2>3. \A d \in Conns : closes'[d] # 0 => closes[d] # 0 \/ d = c
    BY <2>2 DEF Inv, TypeOK
  <2> QED
    BY <1>3, <2>2, <2>3
<1> QED
  BY <1>0, <1>2, <1>4, <1>6, <1>7, <1>8, <1>9, <1>10, <1>11 DEF Worker

LEMMA SerialStep ==
    ASSUME Inv, Counted, Prepared, [Next]_vars,
           \A u \in Threads : started = {u} => Serial(u)
    PROVE  \A u \in Threads : started' = {u} => Serial(u)'
<1>1. started' = started
  BY DEF Next, Script, Connect, Close, Query, Callback, OnConnect, OnQuery, OnClose, Worker,
         Start, ConnectWork, ReadContext, Lock, LockFreed, QueryWork, QueryCrash, CloseWork,
         Submit, Take, Complete, Deliver, pool, vars
<1> SUFFICES ASSUME NEW u \in Threads, started = {u} PROVE Serial(u)'
  BY <1>1
<1>2. CASE UNCHANGED vars
  BY <1>2, StillOrdered DEF vars, pool, conn, workers, Serial, ReadOpen
<1> QED
  BY <1>2, ScriptSerial, CallbackSerial, WorkerSerial DEF Next

\* redis_wrapper.cpp:126-130, 205-208, 223-231. With one worker a command that is
\* running uses a context that is open and was not freed, however scripts
\* interleave commands and closes.
THEOREM RedisCommandsBeforeClose == Spec => []CommandsBeforeClose
<1> DEFINE Serve == Counted /\ Prepared /\ \A u \in Threads : started = {u} => Serial(u)
<1>1. Init => Serve
  BY InitCounted, InitPrepared
<1>2. Inv /\ Serve /\ [Next]_vars => Serve'
  BY CountedStep, PreparedStep, SerialStep
<1>3. Inv /\ Serve => CommandsBeforeClose
  <2> SUFFICES ASSUME Inv, Serve, NEW u \in Threads, started = {u}, NEW t \in inside,
                      job[t].op = "query"
               PROVE  rc[t] = "open" /\ closes[job[t].conn] = 0
    BY DEF CommandsBeforeClose
  <2>1. Serial(u) /\ t = u
    BY DEF Serial, Inv, InsideLocked, TypeOK
  <2> QED
    BY <2>1 DEF Serial, ReadOpen
<1> HIDE DEF Serve
<1> QED
  BY <1>1, <1>2, <1>3, InvHolds, PTL DEF Spec
=============================================================================
