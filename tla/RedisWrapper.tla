---------------------------- MODULE RedisWrapper ----------------------------
(***************************************************************************)
(* database/redis_wrapper.cpp: the same interface over hiredis.  query_work *)
(* reads the pointer to the connection before it takes the mutex under     *)
(* which close_work frees it and sets the pointer to NULL.                 *)
(***************************************************************************)
EXTENDS UvWork, Integers

CONSTANTS Conns,      \* the connections that may be asked for, each once
          Requests,   \* the commands that may be sent, each once
          NoRequest   \* the command of a request that is not one

VARIABLES
    up,         \* the process runs
    mem,        \* redis_Conn: none, connecting, refused, live or freed
    held,       \* the connections scripts have been given
    is_closed,  \* redis_Conn::is_closed
    context,    \* redis_Conn::Conn: none, open, or NULL after the close
    rc,         \* what each worker has read of it: unread, none, open, NULL
    locked,     \* the connections whose mutex is held
    inside,     \* the workers between lock and unlock
    stuck,      \* the workers that wait on a mutex in freed memory
    closes,     \* how often redisFree was called on each connection
    made,       \* the commands scripts have sent, refused ones too
    asked,      \* the commands accepted
    answers     \* how often each command's callback was called

conn == <<mem, held, is_closed, context>>
workers == <<rc, locked, inside, stuck, closes>>
requests == <<made, asked, answers>>
vars == <<pool, up, conn, workers, requests>>

Work == [op : {"connect", "query", "close"}, conn : Conns, req : Requests \cup {NoRequest}]

ASSUME RedisAssumption ==
    /\ NoRequest \notin Requests
    /\ NoWork \notin Work

Job(op, c, q) == [op |-> op, conn |-> c, req |-> q]

Init ==
    /\ PoolInit
    /\ up = TRUE
    /\ mem = [c \in Conns |-> "none"]
    /\ held = {}
    /\ is_closed = [c \in Conns |-> FALSE]
    /\ context = [c \in Conns |-> "none"]
    /\ rc = [t \in Threads |-> "unread"]
    /\ locked = {} /\ inside = {} /\ stuck = {}
    /\ closes = [c \in Conns |-> 0]
    /\ made = {} /\ asked = {}
    /\ answers = [q \in Requests |-> 0]
-----------------------------------------------------------------------------
(* The loop thread: what scripts call.                                      *)

\* redis_wrapper::connect
Connect(c) ==
    /\ up /\ mem[c] = "none"
    /\ mem' = [mem EXCEPT ![c] = "connecting"]
    /\ Submit(Job("connect", c, NoRequest))
    /\ UNCHANGED <<up, held, is_closed, context, workers, requests>>

\* A bug to look for: a connection may be closed again.
CloseUnguarded(c) ==
    /\ up /\ c \in held
    /\ is_closed' = [is_closed EXCEPT ![c] = TRUE]
    /\ Submit(Job("close", c, NoRequest))
    /\ UNCHANGED <<up, mem, held, context, workers, requests>>

\* redis_wrapper::close.  A closed connection is left alone.
Close(c) ==
    /\ up /\ c \in held /\ ~is_closed[c]
    /\ is_closed' = [is_closed EXCEPT ![c] = TRUE]
    /\ Submit(Job("close", c, NoRequest))
    /\ UNCHANGED <<up, mem, held, context, workers, requests>>

\* A bug to look for: commands are accepted on a closed connection.
QueryUnguarded(c, q) ==
    /\ up /\ c \in held /\ q \notin made
    /\ made' = made \cup {q}
    /\ asked' = asked \cup {q}
    /\ Submit(Job("query", c, q))
    /\ UNCHANGED <<up, conn, workers, answers>>

\* redis_wrapper::query.  On a closed connection it returns, and the callback
\* is never called.
Query(c, q) ==
    /\ up /\ c \in held /\ q \notin made
    /\ made' = made \cup {q}
    /\ IF is_closed[c]
       THEN UNCHANGED <<pool, asked>>
       ELSE Submit(Job("query", c, q)) /\ asked' = asked \cup {q}
    /\ UNCHANGED <<up, conn, workers, answers>>
-----------------------------------------------------------------------------
(* The workers.                                                             *)

Running(t, op) == job[t] # NoWork /\ job[t].op = op

Start(t) ==
    /\ up
    /\ Take(t)
    /\ UNCHANGED <<up, conn, workers, requests>>

\* connect_work
ConnectWork(t, ok) ==
    /\ up /\ Running(t, "connect")
    /\ mem' = [mem EXCEPT ![job[t].conn] = IF ok THEN "live" ELSE "refused"]
    /\ context' = [context EXCEPT ![job[t].conn] = IF ok THEN "open" ELSE "none"]
    /\ Complete(t)
    /\ UNCHANGED <<up, held, is_closed, workers, requests>>

\* query_work reads redis_conn->Conn, with no lock held.  In freed memory the
\* pointer is anything.
ReadContext(t) ==
    /\ up /\ Running(t, "query") /\ rc[t] = "unread"
    /\ rc' = [rc EXCEPT ![t] = context[job[t].conn]]
    /\ UNCHANGED <<pool, up, conn, locked, inside, stuck, closes, requests>>

Waits(t, op) ==
    /\ up /\ Running(t, op) /\ t \notin inside \cup stuck
    /\ op = "query" => rc[t] # "unread"

\* A bug to look for: the connection is used without its mutex.
LockNotTaken(t, op) ==
    /\ Waits(t, op)
    /\ inside' = inside \cup {t}
    /\ UNCHANGED <<pool, up, conn, rc, locked, stuck, closes, requests>>

\* uv_mutex_lock in query_work and close_work.
Lock(t, op) ==
    /\ Waits(t, op)
    /\ mem[job[t].conn] = "live" /\ job[t].conn \notin locked
    /\ locked' = locked \cup {job[t].conn}
    /\ inside' = inside \cup {t}
    /\ UNCHANGED <<pool, up, conn, rc, stuck, closes, requests>>

\* The mutex is in freed memory: the worker waits for ever, or goes on with a
\* wild pointer, which ends the process or gives a command a reply.
LockFreed(t, op) ==
    /\ Waits(t, op) /\ mem[job[t].conn] = "freed"
    /\ \/ stuck' = stuck \cup {t} /\ UNCHANGED <<pool, up, rc>>
       \/ up' = FALSE /\ UNCHANGED <<pool, stuck, rc>>
       \/ /\ op = "query" /\ Complete(t)
          /\ rc' = [rc EXCEPT ![t] = "unread"]
          /\ UNCHANGED <<up, stuck>>
    /\ UNCHANGED <<conn, locked, inside, closes, requests>>

\* A bug to look for: the mutex stays locked.
QueryWorkKeepsLock(t) ==
    /\ up /\ t \in inside /\ Running(t, "query") /\ rc[t] = "open"
    /\ inside' = inside \ {t}
    /\ rc' = [rc EXCEPT ![t] = "unread"]
    /\ Complete(t)
    /\ UNCHANGED <<up, conn, locked, stuck, closes, requests>>

\* The rest of query_work: redisCommand has a reply, be it an error.  On a
\* context that redisFree has freed that is one of the things that may happen.
QueryWork(t) ==
    /\ up /\ t \in inside /\ Running(t, "query") /\ rc[t] = "open"
    /\ locked' = locked \ {job[t].conn}
    /\ inside' = inside \ {t}
    /\ rc' = [rc EXCEPT ![t] = "unread"]
    /\ Complete(t)
    /\ UNCHANGED <<up, conn, stuck, closes, requests>>

\* redisCommand runs into a NULL or a freed context, or it returns NULL because
\* the connection broke, and query_work reads reply->type.
QueryCrash(t) ==
    /\ up /\ t \in inside /\ Running(t, "query")
    /\ up' = FALSE
    /\ UNCHANGED <<pool, conn, workers, requests>>

\* The rest of close_work.
CloseWork(t) ==
    /\ up /\ t \in inside /\ Running(t, "close")
    /\ closes' = [closes EXCEPT ![job[t].conn] = @ + 1]
    /\ context' = [context EXCEPT ![job[t].conn] = "NULL"]
    /\ locked' = locked \ {job[t].conn}
    /\ inside' = inside \ {t}
    /\ Complete(t)
    /\ UNCHANGED <<up, mem, held, is_closed, rc, stuck, requests>>
-----------------------------------------------------------------------------
(* The loop thread: the after-work functions.                               *)

\* on_connect_complete: the script is given the connection, or an error.
OnConnect ==
    /\ up /\ Due("connect")
    /\ held' = IF mem[Head(done).conn] = "live" THEN held \cup {Head(done).conn} ELSE held
    /\ Deliver
    /\ UNCHANGED <<up, mem, is_closed, context, workers, requests>>

\* A bug to look for: the request stays on the list of those that are done.
OnQueryKeeps ==
    /\ up /\ Due("query")
    /\ answers' = [answers EXCEPT ![Head(done).req] = @ + 1]
    /\ UNCHANGED <<pool, up, conn, workers, made, asked>>

\* on_query_complete
OnQuery ==
    /\ up /\ Due("query")
    /\ answers' = [answers EXCEPT ![Head(done).req] = @ + 1]
    /\ Deliver
    /\ UNCHANGED <<up, conn, workers, made, asked>>

\* on_close_complete frees the connection, whatever is still queued on it.
\* Freed memory keeps its contents or is overwritten.
OnClose ==
    LET c == Head(done).conn IN
    /\ up /\ Due("close")
    /\ mem' = [mem EXCEPT ![c] = "freed"]
    /\ \E kept \in BOOLEAN : is_closed' = [is_closed EXCEPT ![c] = kept]
    /\ Deliver
    /\ UNCHANGED <<up, held, context, workers, requests>>

Script ==
    \E c \in Conns : \/ Connect(c) \/ Close(c)
                     \/ \E q \in Requests : Query(c, q)

Worker(t) ==
    \/ Start(t)
    \/ \E ok \in BOOLEAN : ConnectWork(t, ok)
    \/ ReadContext(t)
    \/ \E op \in {"query", "close"} : Lock(t, op) \/ LockFreed(t, op)
    \/ QueryWork(t) \/ QueryCrash(t) \/ CloseWork(t)

Callback == OnConnect \/ OnQuery \/ OnClose

Next == Script \/ Callback \/ \E t \in Threads : Worker(t)

\* Workers go on, the database answers or its connection breaks, and the loop
\* calls back what is done; scripts owe nothing.
Fairness == WF_vars(Callback) /\ \A t \in Threads : WF_vars(Worker(t))

Spec == Init /\ [][Next]_vars
FairSpec == Spec /\ Fairness
-----------------------------------------------------------------------------
TypeOK ==
    /\ PoolTypeOK(Work)
    /\ up \in BOOLEAN
    /\ mem \in [Conns -> {"none", "connecting", "refused", "live", "freed"}]
    /\ held \subseteq Conns
    /\ is_closed \in [Conns -> BOOLEAN]
    /\ context \in [Conns -> {"none", "open", "NULL"}]
    /\ rc \in [Threads -> {"unread", "none", "open", "NULL"}]
    /\ locked \subseteq Conns
    /\ inside \subseteq Threads /\ stuck \subseteq Threads
    /\ closes \in [Conns -> Nat]
    /\ made \subseteq Requests /\ asked \subseteq Requests
    /\ answers \in [Requests -> Nat]

\* Two workers are never inside one connection, not even while a close frees it
\* (redis_wrapper.cpp:105-114, 123-145).
Exclusive ==
    \A t, u \in inside : t # u => job[t].conn # job[u].conn

\* A connection is freed once, however often and however late scripts call close
\* (redis_wrapper.cpp:193-209).
ClosedOnce == \A c \in Conns : closes[c] <= 1

Interface == INSTANCE RequestReply

\* Every command's callback is called at most once, and only if it was accepted.
ImplementsInterface == Interface!Spec

\* An accepted command is called back in the end, unless the process ended or a
\* worker fell over freed memory.
AllAnswered ==
    \A q \in Requests : q \in asked ~> (answers[q] > 0 \/ ~up \/ stuck # {})

\* With a pool of one worker (UV_THREADPOOL_SIZE=1) a command runs on the open
\* connection, however scripts interleave commands and closes; with more workers a
\* close may overtake it (redis_wrapper.cpp:126-130, 205-207, 223-229).
CommandsBeforeClose ==
    (\E u \in Threads : started = {u}) =>
        \A t \in inside :
            job[t].op = "query" => rc[t] = "open" /\ closes[job[t].conn] = 0
=============================================================================
