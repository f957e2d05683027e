------------------------------- MODULE UvWork -------------------------------
(***************************************************************************)
(* libuv's work queue (threadpool.c): uv_queue_work appends a request, any *)
(* worker of the pool takes the first one, runs its work function, and the *)
(* loop thread calls the after-work functions in the order in which the    *)
(* work functions ended.  UV_THREADPOOL_SIZE says how many workers there   *)
(* are, 4 if it is not set.                                                *)
(***************************************************************************)
EXTENDS Sequences

CONSTANTS Threads,   \* the workers there may be
          NoWork     \* what an idle worker has

VARIABLES started,   \* the workers init_once started
          queue,     \* the requests no worker has taken
          job,       \* the request each worker runs
          done       \* the requests whose after-work function is due

pool == <<started, queue, job, done>>

PoolInit ==
    /\ started \in SUBSET Threads \ {{}}
    /\ queue = <<>>
    /\ job = [t \in Threads |-> NoWork]
    /\ done = <<>>

Submit(work) ==
    /\ queue' = Append(queue, work)
    /\ UNCHANGED <<started, job, done>>

Take(t) ==
    /\ t \in started /\ job[t] = NoWork /\ queue # <<>>
    /\ job' = [job EXCEPT ![t] = Head(queue)]
    /\ queue' = Tail(queue)
    /\ UNCHANGED <<started, done>>

\* A bug to look for: the worker lets go of the request before it hands it over.
CompleteAfterReset(t) ==
    /\ job' = [job EXCEPT ![t] = NoWork]
    /\ done' = Append(done, NoWork)
    /\ UNCHANGED <<started, queue>>

Complete(t) ==
    /\ job' = [job EXCEPT ![t] = NoWork]
    /\ done' = Append(done, job[t])
    /\ UNCHANGED <<started, queue>>

Due(op) == done # <<>> /\ Head(done).op = op

Deliver ==
    /\ done' = Tail(done)
    /\ UNCHANGED <<started, queue, job>>

PoolTypeOK(Work) ==
    /\ started \subseteq Threads
    /\ queue \in Seq(Work)
    /\ job \in [Threads -> Work \cup {NoWork}]
    /\ done \in Seq(Work)
=============================================================================
