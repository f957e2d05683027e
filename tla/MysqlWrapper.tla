---------------------------- MODULE MysqlWrapper ----------------------------
(***************************************************************************)
(* database/mysql_wrapper.cpp: connections to a database, used by the loop *)
(* thread (connect, close, query and the callbacks) and by the workers of  *)
(* libuv's pool (the work functions), which share them under a mutex.      *)
(* A connection's memory is freed by the callback of its close; requests   *)
(* that still name it then work on freed memory.                           *)
(***************************************************************************)
EXTENDS UvWork, Integers

CONSTANTS Conns,      \* the connections that may be asked for, each once
          Requests,   \* the queries that may be made, each once
          NoRequest   \* the query of a request that is not one

Outcomes == {"rows", "error", "empty"}   \* what a statement may come to

VARIABLES
    up,         \* the process runs
    mem,        \* mysql_Conn: none, connecting, refused, live or freed
    held,       \* the connections scripts have been given
    is_closed,  \* mysql_Conn::is_closed
    locked,     \* the connections whose mutex is held
    inside,     \* the workers between lock and unlock
    leaked,     \* the connections query_work has left locked (ghost)
    stuck,      \* the workers that wait on a mutex in freed memory
    closes,     \* how often mysql_close was called on each connection
    made,       \* the queries scripts have made, refused ones too
    asked,      \* the queries accepted
    answers     \* how often each query's callback was called

conn == <<mem, held, is_closed>>
workers == <<locked, inside, leaked, stuck, closes>>
requests == <<made, asked, answers>>
vars == <<pool, up, conn, workers, requests>>

Work == [op : {"connect", "query", "close"}, conn : Conns, req : Requests \cup {NoRequest}]

ASSUME MysqlAssumption ==
    /\ NoRequest \notin Requests
    /\ NoWork \notin Work

Job(op, c, q) == [op |-> op, conn |-> c, req |-> q]

Init ==
    /\ PoolInit
    /\ up = TRUE
    /\ mem = [c \in Conns |-> "none"]
    /\ held = {}
    /\ is_closed = [c \in Conns |-> FALSE]
    /\ locked = {} /\ inside = {} /\ leaked = {} /\ stuck = {}
    /\ closes = [c \in Conns |-> 0]
    /\ made = {} /\ asked = {}
    /\ answers = [q \in Requests |-> 0]
-----------------------------------------------------------------------------
(* The loop thread: what scripts call.                                      *)

\* mysql_wrapper::connect
Connect(c) ==
    /\ up /\ mem[c] = "none"
    /\ mem' = [mem EXCEPT ![c] = "connecting"]
    /\ Submit(Job("connect", c, NoRequest))
    /\ UNCHANGED <<up, held, is_closed, workers, requests>>

\* A bug to look for: a connection may be closed again.
CloseUnguarded(c) ==
    /\ up /\ c \in held
    /\ is_closed' = [is_closed EXCEPT ![c] = TRUE]
    /\ Submit(Job("close", c, NoRequest))
    /\ UNCHANGED <<up, mem, held, workers, requests>>

\* mysql_wrapper::close.  A closed connection is left alone.
Close(c) ==
    /\ up /\ c \in held /\ ~is_closed[c]
    /\ is_closed' = [is_closed EXCEPT ![c] = TRUE]
    /\ Submit(Job("close", c, NoRequest))
    /\ UNCHANGED <<up, mem, held, workers, requests>>

\* mysql_wrapper::query.  On a closed connection it returns, and the callback
\* is never called.
Query(c, q) ==
    /\ up /\ c \in held /\ q \notin made
    /\ made' = made \cup {q}
    /\ IF is_closed[c]
       THEN UNCHANGED <<pool, asked>>
       ELSE Submit(Job("query", c, q)) /\ asked' = asked \cup {q}
    /\ UNCHANGED <<up, conn, workers, answers>>
-----------------------------------------------------------------------------
(* The workers.                                                             *)

Running(t, op) == job[t] # NoWork /\ job[t].op = op

Start(t) ==
    /\ up
    /\ Take(t)
    /\ UNCHANGED <<up, conn, workers, requests>>

\* connect_work
ConnectWork(t, ok) ==
    /\ up /\ Running(t, "connect")
    /\ mem' = [mem EXCEPT ![job[t].conn] = IF ok THEN "live" ELSE "refused"]
    /\ Complete(t)
    /\ UNCHANGED <<up, held, is_closed, workers, requests>>

Waits(t, op) == up /\ Running(t, op) /\ t \notin inside \cup stuck

\* A bug to look for: the connection is used without its mutex.
LockNotTaken(t, op) ==
    /\ Waits(t, op)
    /\ inside' = inside \cup {t}
    /\ UNCHANGED <<pool, up, conn, locked, leaked, stuck, closes, requests>>

\* uv_mutex_lock at the head of query_work and close_work.
Lock(t, op) ==
    /\ Waits(t, op)
    /\ mem[job[t].conn] = "live" /\ job[t].conn \notin locked
    /\ locked' = locked \cup {job[t].conn}
    /\ inside' = inside \cup {t}
    /\ UNCHANGED <<pool, up, conn, leaked, stuck, closes, requests>>

\* The mutex is in freed memory, and free has overwritten the pointer next to it:
\* the worker waits for ever, or the wild pointer ends the process or gives a
\* query an error.
LockFreed(t, op) ==
    /\ Waits(t, op) /\ mem[job[t].conn] = "freed"
    /\ \/ stuck' = stuck \cup {t} /\ UNCHANGED <<pool, up>>
       \/ up' = FALSE /\ UNCHANGED <<pool, stuck>>
       \/ op = "query" /\ Complete(t) /\ UNCHANGED <<up, stuck>>
    /\ UNCHANGED <<conn, locked, inside, leaked, closes, requests>>

\* A bug to look for: a statement that fails returns with the mutex locked too.
QueryWorkKeepsLock(t, outcome) ==
    /\ up /\ t \in inside /\ Running(t, "query")
    /\ closes[job[t].conn] > 0 => outcome = "error"
    /\ locked' = IF outcome = "rows" THEN locked \ {job[t].conn} ELSE locked
    /\ leaked' = IF outcome = "empty" THEN leaked \cup {job[t].conn} ELSE leaked
    /\ inside' = inside \ {t}
    /\ Complete(t)
    /\ UNCHANGED <<up, conn, stuck, closes, requests>>

\* The rest of query_work.  A statement that succeeds without a result set
\* returns with the mutex locked.  A handle that mysql_close has freed gives an
\* error at best.
QueryWork(t, outcome) ==
    LET c == job[t].conn IN
    /\ up /\ t \in inside /\ Running(t, "query")
    /\ closes[c] > 0 => outcome = "error"
    /\ IF outcome = "empty"
       THEN leaked' = leaked \cup {c} /\ UNCHANGED locked
       ELSE locked' = locked \ {c} /\ UNCHANGED leaked
    /\ inside' = inside \ {t}
    /\ Complete(t)
    /\ UNCHANGED <<up, conn, stuck, closes, requests>>

QueryCrash(t) ==
    /\ up /\ t \in inside /\ Running(t, "query") /\ closes[job[t].conn] > 0
    /\ up' = FALSE
    /\ UNCHANGED <<pool, conn, workers, requests>>

\* The rest of close_work.
CloseWork(t) ==
    /\ up /\ t \in inside /\ Running(t, "close")
    /\ closes' = [closes EXCEPT ![job[t].conn] = @ + 1]
    /\ locked' = locked \ {job[t].conn}
    /\ inside' = inside \ {t}
    /\ Complete(t)
    /\ UNCHANGED <<up, conn, leaked, stuck, requests>>
-----------------------------------------------------------------------------
(* The loop thread: the after-work functions.                               *)

\* on_connect_complete: the script is given the connection, or an error.
OnConnect ==
    /\ up /\ Due("connect")
    /\ held' = IF mem[Head(done).conn] = "live" THEN held \cup {Head(done).conn} ELSE held
    /\ Deliver
    /\ UNCHANGED <<up, mem, is_closed, workers, requests>>

\* A bug to look for: the request stays on the list of those that are done.
OnQueryKeeps ==
    /\ up /\ Due("query")
    /\ answers' = [answers EXCEPT ![Head(done).req] = @ + 1]
    /\ UNCHANGED <<pool, up, conn, workers, made, asked>>

\* on_query_complete
OnQuery ==
    /\ up /\ Due("query")
    /\ answers' = [answers EXCEPT ![Head(done).req] = @ + 1]
    /\ Deliver
    /\ UNCHANGED <<up, conn, workers, made, asked>>

\* on_close_complete frees the connection, whatever is still queued on it.
\* Freed memory keeps is_closed or is overwritten.
OnClose ==
    /\ up /\ Due("close")
    /\ mem' = [mem EXCEPT ![Head(done).conn] = "freed"]
    /\ \E kept \in BOOLEAN : is_closed' = [is_closed EXCEPT ![Head(done).conn] = kept]
    /\ Deliver
    /\ UNCHANGED <<up, held, workers, requests>>

Script ==
    \E c \in Conns : \/ Connect(c) \/ Close(c)
                     \/ \E q \in Requests : Query(c, q)

Worker(t) ==
    \/ Start(t)
    \/ \E ok \in BOOLEAN : ConnectWork(t, ok)
    \/ \E op \in {"query", "close"} : Lock(t, op) \/ LockFreed(t, op)
    \/ \E outcome \in Outcomes : QueryWork(t, outcome)
    \/ QueryCrash(t) \/ CloseWork(t)

Callback == OnConnect \/ OnQuery \/ OnClose

Next == Script \/ Callback \/ \E t \in Threads : Worker(t)

\* Workers go on, the database answers or its connection breaks, and the loop
\* calls back what is done; scripts owe nothing.
Fairness == WF_vars(Callback) /\ \A t \in Threads : WF_vars(Worker(t))

Spec == Init /\ [][Next]_vars
FairSpec == Spec /\ Fairness
-----------------------------------------------------------------------------
TypeOK ==
    /\ PoolTypeOK(Work)
    /\ up \in BOOLEAN
    /\ mem \in [Conns -> {"none", "connecting", "refused", "live", "freed"}]
    /\ held \subseteq Conns
    /\ is_closed \in [Conns -> BOOLEAN]
    /\ locked \subseteq Conns
    /\ inside \subseteq Threads /\ stuck \subseteq Threads
    /\ leaked \subseteq Conns
    /\ closes \in [Conns -> Nat]
    /\ made \subseteq Requests /\ asked \subseteq Requests
    /\ answers \in [Requests -> Nat]

\* Two workers are never inside one connection, whose library is not safe for
\* that, not even while a close frees it (mysql_wrapper.cpp:114-122, 131-175).
Exclusive ==
    \A t, u \in inside : t # u => job[t].conn # job[u].conn

\* A connection is closed once, however often and however late scripts call
\* close (mysql_wrapper.cpp:223-238).
ClosedOnce == \A c \in Conns : closes[c] <= 1

Interface == INSTANCE RequestReply

\* Every query's callback is called at most once, and only if it was accepted.
ImplementsInterface == Interface!Spec

\* An accepted query is called back in the end, unless the process ended, a
\* worker fell over freed memory, or a statement without a result set has left a
\* mutex locked.
AllAnswered ==
    \A q \in Requests :
        q \in asked ~> (answers[q] > 0 \/ ~up \/ stuck # {} \/ leaked # {})

\* The mutex that query_work locks (加锁, mysql_wrapper.cpp:137) it unlocks
\* (解锁, :145, :174): it is held only by a worker that is inside.
LockHasHolder ==
    \A c \in locked : \E t \in inside : job[t].conn = c
=============================================================================
