------------------------------- MODULE Session -------------------------------
(***************************************************************************)
(* The life of the TCP sessions of a server: session_uv.cpp, the accept    *)
(* and connect callbacks of netbus.cpp, the services table of              *)
(* service_manager.cpp, and the scripts behind lua_service, which hold raw *)
(* session pointers.  Everything runs on the thread of the event loop, one *)
(* callback per action; libuv's part is modelled as session_uv.cpp relies  *)
(* on it.  A session is named by the memory it lives in.                   *)
(***************************************************************************)
EXTENDS Integers

CONSTANTS Clients,     \* the connections that may be made, each once
          PoolSlots,   \* the elements of session_allocer
          HeapSlots,   \* the addresses malloc may return (bounds the spill)
          Stypes,      \* the service numbers a command may carry
          Uids,        \* the identities a script may give a session
          MaxQueue,    \* bounds the writes queued on a handle
          MaxLost,     \* bounds the write requests that are never returned
          MaxHeard,    \* bounds the broadcasts freed memory causes
          NoClient     \* the owner of memory that never held a session

Slots == PoolSlots \cup HeapSlots

ASSUME SessionAssumption ==
    /\ PoolSlots \cap HeapSlots = {}
    /\ NoClient \notin Clients
    /\ 0 \notin Uids
    /\ MaxQueue \in Nat /\ MaxLost \in Nat /\ MaxHeard \in Nat

VARIABLES
    up,           \* the process runs
    used,         \* the memory handed out by session_allocer
    owner,        \* the connection each session was last created for (ghost)
    is_shutdown, as_client, uid,      \* fields of session_uv
    handle,       \* libuv's view: none, socket (its connect(2) failed), connecting,
                  \* open, shutting, closing
    reading,      \* uv_read_start is in force
    queue,        \* the writes queued on the handle
    lost,         \* write requests uv_write refused, never freed
    services,     \* g_service_set: the registered service numbers
    held,         \* the session pointers scripts have kept
    arrived,      \* the connections that have been made (ghost)
    heard,        \* how often each connection's end was broadcast (ghost)
    spoiled       \* connections whose freed memory lost its mark (ghost)

fields == <<is_shutdown, as_client, uid>>
uv == <<handle, reading, queue, lost>>
vars == <<up, used, owner, fields, uv, services, held, arrived, heard, spoiled>>

\* utils/cache.c, as MODULE CachePool is proved to implement it.
Pool == INSTANCE BlockAllocator
    WITH Block <- PoolSlots, Heap <- HeapSlots, ElemSize <- 1, Requests <- {1},
         parity <- 0  \* Session uses Acquire and Release only

Init ==
    /\ up = TRUE
    /\ used = {}
    /\ owner = [s \in Slots |-> NoClient]
    /\ is_shutdown = [s \in Slots |-> FALSE]
    /\ as_client = [s \in Slots |-> 0]
    /\ uid = [s \in Slots |-> 0]
    /\ handle = [s \in Slots |-> "none"]
    /\ reading = [s \in Slots |-> FALSE]
    /\ queue = [s \in Slots |-> 0]
    /\ lost = 0
    /\ services = {}
    /\ held = {}
    /\ arrived = {}
    /\ heard = [c \in Clients |-> 0]
    /\ spoiled = {}
-----------------------------------------------------------------------------
(* Creation                                                                 *)

\* session_uv::create: init() resets is_shutdown and the receive state but not
\* as_client, utag and uid, which no constructor initialises: an element of the
\* (zeroed) pool keeps those of its last session, malloc'd memory has any.
Create(s, c, asClient, h) ==
    /\ c \in Clients \ arrived
    /\ Pool!Acquire(s, 1)
    /\ arrived' = arrived \cup {c}
    /\ owner' = [owner EXCEPT ![s] = c]
    /\ is_shutdown' = [is_shutdown EXCEPT ![s] = FALSE]
    /\ \E u \in Uids \cup {0}, a \in {0, 1} :
          /\ s \in PoolSlots => u = uid[s] /\ a = as_client[s]
          /\ uid' = [uid EXCEPT ![s] = u]
          /\ as_client' = [as_client EXCEPT ![s] = IF asClient THEN 1 ELSE a]
    /\ handle' = [handle EXCEPT ![s] = h]
    /\ queue' = [queue EXCEPT ![s] = 0]
    /\ UNCHANGED <<up, lost, services, held, heard, spoiled>>

\* connection_cb
Accept(s, c) ==
    /\ up
    /\ Create(s, c, FALSE, "open")
    /\ reading' = [reading EXCEPT ![s] = TRUE]

\* netbus::tcp_connect
TcpConnect(s, c) ==
    /\ up
    /\ Create(s, c, TRUE, "connecting")
    /\ reading' = [reading EXCEPT ![s] = FALSE]

\* uv_tcp_connect fails at once, before it has made a socket or, when connect(2)
\* fails, with the socket on the handle: tcp_connect returns, no callback comes,
\* and nobody frees the session.
TcpConnectFails(s, c) ==
    /\ up
    /\ \E h \in {"none", "socket"} : Create(s, c, TRUE, h)
    /\ reading' = [reading EXCEPT ![s] = FALSE]
-----------------------------------------------------------------------------
(* Closing                                                                  *)

\* The handles uv_shutdown accepts: those that have a socket and were neither
\* shut down nor closed.
Shuttable == {"socket", "connecting", "open"}

\* A bug to look for: is_shutdown stays unset.
CloseKeepsFlag(s) ==
    /\ heard' = [heard EXCEPT ![owner[s]] = @ + 1]
    /\ handle' = [handle EXCEPT ![s] = IF @ \in Shuttable THEN "shutting" ELSE @]
    /\ UNCHANGED is_shutdown

\* A bug to look for: the services are told before the flag is looked at.
CloseBroadcastsFirst(s) ==
    /\ heard' = [heard EXCEPT ![owner[s]] = @ + 1]
    /\ is_shutdown' = [is_shutdown EXCEPT ![s] = TRUE]
    /\ handle' = [handle EXCEPT ![s] = IF @ \in Shuttable THEN "shutting" ELSE @]

\* A bug to look for: the session is marked, the shutdown is not requested.
CloseForgetsShutdown(s) ==
    /\ ~is_shutdown[s]
    /\ heard' = [heard EXCEPT ![owner[s]] = @ + 1]
    /\ is_shutdown' = [is_shutdown EXCEPT ![s] = TRUE]
    /\ UNCHANGED handle

\* session_uv::close: the end is broadcast first, then the flag is set.  In memory
\* that was freed and overwritten, what is left of the handle is refused by
\* uv_shutdown; that it may also end the process is WildCall.
Close(s) ==
    IF is_shutdown[s]
    THEN UNCHANGED <<is_shutdown, heard, handle>>
    ELSE /\ heard' = [heard EXCEPT ![owner[s]] = @ + 1]
         /\ is_shutdown' = [is_shutdown EXCEPT ![s] = TRUE]
         /\ handle' = [handle EXCEPT ![s] =
                          IF @ \in Shuttable THEN "shutting" ELSE @]

\* after_connect.  On success the caller's callback gets the session, which it
\* may keep and may close; reading starts all the same.
Connected(s, closes) ==
    /\ up /\ handle[s] = "connecting"
    /\ reading' = [reading EXCEPT ![s] = TRUE]
    /\ held' \in {held, held \cup {s}}
    /\ IF closes THEN Close(s)
       ELSE /\ handle' = [handle EXCEPT ![s] = "open"]
            /\ UNCHANGED <<is_shutdown, heard>>
    /\ UNCHANGED <<up, used, owner, as_client, uid, queue, lost, services, arrived,
                   spoiled>>

ConnectFailed(s) ==
    /\ up /\ handle[s] = "connecting"
    /\ Close(s)
    /\ UNCHANGED <<up, used, owner, as_client, uid, reading, queue, lost, services,
                   held, arrived, spoiled>>

\* libuv reads until uv_close, a session that is shutting down included.
Readable(s) == up /\ handle[s] \in {"open", "shutting"} /\ reading[s]

\* tcp_read_cb with nread < 0.
ReadEnd(s) ==
    /\ Readable(s)
    /\ Close(s)
    /\ reading' = [reading EXCEPT ![s] = FALSE]
    /\ UNCHANGED <<up, used, owner, as_client, uid, queue, lost, services, held, arrived,
                   spoiled>>

\* A bug to look for: the session is destroyed with its handle still open.
ShutdownCbDestroys(s) ==
    /\ up /\ handle[s] = "shutting" /\ queue[s] = 0
    /\ Pool!Release(s)
    /\ UNCHANGED <<up, owner, fields, uv, services, held, arrived, heard, spoiled>>

\* shutdown_cb: libuv calls it when the queued writes are done, and the handle
\* is closed.
ShutdownCb(s) ==
    /\ up /\ handle[s] = "shutting" /\ queue[s] = 0
    /\ handle' = [handle EXCEPT ![s] = "closing"]
    /\ reading' = [reading EXCEPT ![s] = FALSE]
    /\ UNCHANGED <<up, used, owner, fields, queue, lost, services, held, arrived,
                   heard, spoiled>>

\* close_cb: session_uv::destroy.  An element of the pool gets the link of the
\* free list in its first word and keeps the rest, is_shutdown included; other
\* memory goes to free and has been written by nobody else yet.
CloseCb(s) ==
    /\ up /\ handle[s] = "closing"
    /\ Pool!Release(s)
    /\ handle' = [handle EXCEPT ![s] = "none"]
    /\ UNCHANGED <<up, owner, fields, reading, queue, lost, services, held, arrived,
                   heard, spoiled>>

\* Memory that went to free is malloc's again: other code may get it and write
\* over the mark of the session that was there.
Overwrite(s) ==
    /\ up /\ s \in HeapSlots \ used
    /\ owner[s] # NoClient /\ is_shutdown[s] /\ heard[owner[s]] < MaxHeard
    /\ is_shutdown' = [is_shutdown EXCEPT ![s] = FALSE]
    /\ spoiled' = spoiled \cup {owner[s]}
    /\ UNCHANGED <<up, used, owner, as_client, uid, uv, services, held, arrived, heard>>
-----------------------------------------------------------------------------
(* Writing                                                                  *)

\* The handles uv_write takes a request for: those with a socket (Script leaves
\* one that is connecting alone).
Writable == {"socket", "open", "shutting"}

\* uv_write queues the request; a handle without a socket refuses it, and
\* tcp_write_cb, which frees the request, is never called.
Write(s) ==
    IF handle[s] \in Writable
    THEN /\ queue[s] < MaxQueue
         /\ queue' = [queue EXCEPT ![s] = @ + 1]
         /\ UNCHANGED lost
    ELSE /\ lost < MaxLost
         /\ lost' = lost + 1
         /\ UNCHANGED queue

\* A bug to look for: a request is called back that has been returned already.
WriteDoneAgain(s) ==
    /\ up /\ handle[s] \in Writable
    /\ queue' = [queue EXCEPT ![s] = @ - 1]
    /\ UNCHANGED <<up, used, owner, fields, handle, reading, lost, services, held,
                   arrived, heard, spoiled>>

\* tcp_write_cb, after success or failure.
WriteDone(s) ==
    /\ up /\ handle[s] \in Writable /\ queue[s] > 0
    /\ queue' = [queue EXCEPT ![s] = @ - 1]
    /\ UNCHANGED <<up, used, owner, fields, handle, reading, lost, services, held,
                   arrived, heard, spoiled>>
-----------------------------------------------------------------------------
(* Services                                                                 *)

\* service_manager::register_service, called by a script: a number is taken
\* once.
Register(t) ==
    /\ up /\ t \notin services
    /\ services' = services \cup {t}
    /\ UNCHANGED <<up, used, owner, fields, uv, held, arrived, heard, spoiled>>

\* on_recv_client_cmd for a service number nobody has registered.
RefusedCommand(s, t) ==
    /\ Readable(s) /\ t \notin services
    /\ Close(s)
    /\ UNCHANGED <<up, used, owner, as_client, uid, reading, queue, lost, services,
                   held, arrived, spoiled>>

\* on_recv_client_cmd for a registered one: its script runs, and calls what
\* session_export offers on the session it got or on one it has kept (x), whose
\* memory may have been freed or have become another session.  Scripts leave a
\* session that is still connecting alone (an assumption of the model).
Script(s, t, x) ==
    /\ Readable(s) /\ t \in services
    /\ x \in held \cup {s} /\ handle[x] # "connecting"

ScriptClose(s, t, x) ==
    /\ Script(s, t, x)
    /\ Close(x)
    /\ UNCHANGED <<up, used, owner, as_client, uid, reading, queue, lost, services,
                   held, arrived, spoiled>>

ScriptSend(s, t, x) ==
    /\ Script(s, t, x)
    /\ Write(x)
    /\ UNCHANGED <<up, used, owner, fields, handle, reading, services, held, arrived,
                   heard, spoiled>>

ScriptSetUid(s, t, x, u) ==
    /\ Script(s, t, x)
    /\ uid' = [uid EXCEPT ![x] = u]
    /\ UNCHANGED <<up, used, owner, is_shutdown, as_client, uv, services, held,
                   arrived, heard, spoiled>>

ScriptKeep(s, t) ==
    /\ Script(s, t, s)
    /\ held' = held \cup {s}
    /\ UNCHANGED <<up, used, owner, fields, uv, services, arrived, heard, spoiled>>

\* Sessions are never constructed (session_uv.cpp:143), so a virtual call on one
\* goes wherever the first word of its memory points: it may end the process.
WildCall ==
    /\ up /\ used # {}
    /\ up' = FALSE
    /\ UNCHANGED <<used, owner, fields, uv, services, held, arrived, heard, spoiled>>

\* The event loop has nothing left to do, or there is no process.
Rest ==
    /\ ~up \/ (arrived = Clients /\ \A s \in Slots : handle[s] \in {"none", "socket"})
    /\ UNCHANGED vars

NetworkStep(s) ==
    \/ \E c \in Clients : Accept(s, c) \/ TcpConnect(s, c) \/ TcpConnectFails(s, c)
    \/ \E closes \in BOOLEAN : Connected(s, closes)
    \/ ConnectFailed(s) \/ ReadEnd(s)
    \/ ShutdownCb(s) \/ CloseCb(s) \/ WriteDone(s) \/ Overwrite(s)

ServiceStep(s, t) ==
    \/ RefusedCommand(s, t) \/ ScriptKeep(s, t)
    \/ \E x \in Slots :
          \/ ScriptClose(s, t, x) \/ ScriptSend(s, t, x)
          \/ \E u \in Uids : ScriptSetUid(s, t, x, u)

Next ==
    \/ \E s \in Slots : NetworkStep(s) \/ \E t \in Stypes : ServiceStep(s, t)
    \/ \E t \in Stypes : Register(t)
    \/ WildCall \/ Rest

\* libuv finishes what it has been asked: a queued write completes or fails (a
\* peer that neither reads nor leaves is excluded), a handle that waits for its
\* shutdown with nothing queued is called back, and the loop then closes.  A queue
\* that only is empty now and then owes nothing: a script may write before the
\* loop gets to the shutdown.
Fairness ==
    \A s \in Slots : /\ WF_vars(WriteDone(s)) /\ WF_vars(ShutdownCb(s))
                     /\ WF_vars(CloseCb(s))

Spec == Init /\ [][Next]_vars
FairSpec == Spec /\ Fairness
-----------------------------------------------------------------------------
TypeOK ==
    /\ up \in BOOLEAN
    /\ used \subseteq Slots
    /\ owner \in [Slots -> Clients \cup {NoClient}]
    /\ is_shutdown \in [Slots -> BOOLEAN]
    /\ as_client \in [Slots -> {0, 1}]
    /\ uid \in [Slots -> Uids \cup {0}]
    /\ handle \in [Slots -> {"none", "socket", "connecting", "open", "shutting", "closing"}]
    /\ reading \in [Slots -> BOOLEAN]
    /\ queue \in [Slots -> 0 .. MaxQueue]
    /\ lost \in 0 .. MaxLost
    /\ services \subseteq Stypes
    /\ held \subseteq Slots
    /\ arrived \subseteq Clients
    /\ heard \in [Clients -> Nat]
    /\ spoiled \subseteq Clients

\* libuv never calls back into freed memory: a handle with anything pending
\* lives in a session that is in use, and a write can only complete on a handle
\* that is not closed (session_uv.cpp:30-51).
HandlesAlive ==
    \A s \in Slots :
        /\ handle[s] # "none" => s \in used
        /\ queue[s] > 0 => handle[s] \in Writable

Stage(c) ==
    IF c \notin arrived THEN "away"
    ELSE IF \E s \in used : owner[s] = c
         THEN IF \E s \in used : owner[s] = c /\ is_shutdown[s] THEN "left" ELSE "present"
         ELSE "gone"

\* The end of a connection is broadcast when it leaves and never again, however
\* the service's refusals, the scripts' closes (by stale pointers too), failed
\* connects and the peer's own close meet (session_uv.cpp:69-81, netbus.cpp:39-42,
\* 256-265, 342-350).  Only a connection that is gone, and whose session was on
\* the heap and has been overwritten there, may be broadcast once more: then a
\* stale pointer finds is_shutdown unset.
BroadcastOnce ==
    \A c \in Clients :
        IF c \in spoiled THEN Stage(c) = "gone" /\ heard[c] >= 1
        ELSE heard[c] = IF Stage(c) \in {"left", "gone"} THEN 1 ELSE 0

Lifecycle == INSTANCE ClientLifecycle WITH stage <- [c \in Clients |-> Stage(c)]

\* No session's memory is freed or becomes another's before the end of its
\* connection has been broadcast.
ImplementsLifecycle == Lifecycle!Spec

\* The session of a connection libuv has no socket for (TcpConnectFails).
Stranded(c) == \E s \in used : owner[s] = c /\ handle[s] = "none"

SendsTo(c) == \E s \in used : owner[s] = c /\ queue'[s] > queue[s]

\* A session whose end has been broadcast is destroyed in the end, whatever was
\* queued on it, unless scripts go on sending to it for ever: libuv gets to the
\* shutdown when the queue is empty, and one that is filled up in time never is
\* (session_uv.cpp:38-51, 69-81, stream.c:1281-1287).  A session without a socket
\* that a script closed by a stale pointer is never destroyed.
ClosedIsDestroyed ==
    \A c \in Clients :
        \/ heard[c] > 0 ~> (Stage(c) = "gone" \/ Stranded(c) \/ ~up)
        \/ []<><<SendsTo(c)>>_vars

\* A session starts as nobody: session.h:19-21 initialises as_client, utag and
\* uid to 0.
FreshIdentity ==
    [][\A s \in used' \ used : uid'[s] = 0 /\ as_client'[s] = IF handle'[s] = "open" THEN 0 ELSE 1]_vars
=============================================================================
