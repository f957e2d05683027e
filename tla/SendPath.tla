------------------------------ MODULE SendPath ------------------------------
(***************************************************************************)
(* What becomes of a message a session sends: send_data of session_uv.cpp  *)
(* packages it (tcp_protocol::package, ws_protocol::package_ws_send_data), *)
(* hands the package to uv_write and gives its memory back at once.  libuv *)
(* (unix/stream.c) writes what the socket takes, queues the rest, writes   *)
(* it from the same memory when the socket is writable again, and turns a  *)
(* shutdown into a close when the queue is empty.                          *)
(*                                                                         *)
(* The packages of all the sessions come from one heap: the pool made for  *)
(* them has elements of sizeof(CMD_CACHE_SIZE) bytes, which fit no         *)
(* package.  The reply to a WebSocket handshake is in a static buffer.     *)
(***************************************************************************)
EXTENDS Integers, Sequences

CONSTANTS Sessions,
          Msgs,       \* what may be sent, each once
          To,         \* the session each message is sent to
          Size,       \* the length of each package
          Replies,    \* the replies to WebSocket handshakes
          TooLong,    \* messages that ws_protocol does not package
          Heap,       \* the addresses malloc may return
          Static,     \* the buffer of the handshake replies
          Null,       \* the package of a message that is too long
          Junk        \* what other code leaves in the heap

Blocks == Heap \cup {Static}

ASSUME SendAssumption ==
    /\ To \in [Msgs -> Sessions]
    /\ Size \in [Msgs -> Nat \ {0}]
    /\ Replies \subseteq Msgs /\ TooLong \subseteq Msgs \ Replies
    /\ Static \notin Heap /\ Null \notin Blocks /\ Junk \notin Msgs

VARIABLES
    conn,        \* open, shutting (uv_shutdown), closing (uv_close), closed
    broken,      \* the connections that are lost: every write fails
    write_queue, \* the requests libuv has not wholly written
    completed,   \* the requests whose callback is due; bytes left: failed
    wr,          \* the messages whose uv_write_t is in use
    memory,      \* what each block holds
    asked,       \* the messages that were sent, refused ones too (ghost)
    refused,     \* those uv_write refused (ghost)
    start,       \* where each accepted message begins in its stream (ghost)
    total,       \* the bytes accepted for each session (ghost)
    sent,        \* what went out on each connection, byte by byte (ghost)
    spoiled      \* sessions that had a queued block overwritten (ghost)

uv == <<conn, broken, write_queue, completed>>
ghosts == <<asked, refused, start, total, sent, spoiled>>
vars == <<uv, wr, memory, ghosts>>

Bytes(m) == IF m \in TooLong THEN 0 ELSE Size[m]

Request == [msg : Msgs, block : Blocks \cup {Null}, left : Nat]

Init ==
    /\ conn = [s \in Sessions |-> "open"]
    /\ broken = {}
    /\ write_queue = [s \in Sessions |-> <<>>]
    /\ completed = [s \in Sessions |-> <<>>]
    /\ wr = {}
    /\ memory = [b \in Blocks |-> Junk]
    /\ asked = {} /\ refused = {} /\ spoiled = {}
    /\ start = [m \in Msgs |-> 0]
    /\ total = [s \in Sessions |-> 0]
    /\ sent = [s \in Sessions |-> <<>>]
-----------------------------------------------------------------------------
(* uv__write: one write(2) of the first request of the queue, of which the  *)
(* socket takes n bytes.                                                    *)

\* A NULL package with a length that is not 0 is EFAULT.
Fails(s, r) == r.left > 0 /\ (s \in broken \/ r.msg \in TooLong)

\* What the socket may take: 0 is EAGAIN.
Takes(s, q) ==
    IF q = <<>> \/ Fails(s, Head(q)) THEN {0} ELSE 0 .. Head(q).left

\* A bug to look for: what is left of a package is written from its beginning.
AdvanceLeft(r, n) == [r EXCEPT !.left = IF n < @ THEN @ ELSE 0]

\* A bug to look for: the rest is counted up.
AdvanceUp(r, n) == [r EXCEPT !.left = IF n < @ THEN @ - n ELSE -n]

Advance(r, n) == [r EXCEPT !.left = @ - n]

\* The request is over: written, or failed with bytes left.
Over(s, q, n) == q # <<>> /\ (Fails(s, Head(q)) \/ Head(q).left = n)

Finished(s, q, n) == IF Over(s, q, n) THEN <<Advance(Head(q), n)>> ELSE <<>>

Remaining(s, q, n) ==
    IF Over(s, q, n) THEN Tail(q)
    ELSE IF q = <<>> THEN q ELSE [q EXCEPT ![1] = Advance(@, n)]

\* The bytes that go out are those that are in the block now.
Emitted(q, n, mem) ==
    [i \in 1 .. n |-> [msg |-> mem[Head(q).block],
                       at |-> Size[Head(q).msg] - Head(q).left + i]]

\* The sessions that have a package in this block queued.
Overwritten(b) ==
    {s \in Sessions : \E i \in 1 .. Len(write_queue[s]) :
                          b # Null /\ write_queue[s][i].block = b}
-----------------------------------------------------------------------------
(* session_uv                                                               *)

\* cache_alloc of wbuf_allocer: the packages made before have been returned, so
\* malloc may return any address.
BlocksFor(m) ==
    IF m \in Replies THEN {Static} ELSE IF m \in TooLong THEN {Null} ELSE Heap

\* package_ws_send_data leaves the length of a package it does not make unset.
Lengths(m) == IF m \in TooLong THEN {0, Size[m]} ELSE {Size[m]}

\* write_queue_size = 0: bytes that failed count until their callback.
Idle(s) ==
    /\ \A i \in 1 .. Len(write_queue[s]) : write_queue[s][i].left = 0
    /\ \A i \in 1 .. Len(completed[s]) : completed[s][i].left = 0

\* uv_write: at once if nothing is queued, else when the socket is writable.
UvWrite(s, r, mem) ==
    LET q == Append(write_queue[s], r) IN
    \E n \in IF Idle(s) THEN Takes(s, q) ELSE {0} :
        IF Idle(s)
        THEN /\ write_queue' = [write_queue EXCEPT ![s] = Remaining(s, q, n)]
             /\ completed' = [completed EXCEPT ![s] = @ \o Finished(s, q, n)]
             /\ sent' = [sent EXCEPT ![s] = @ \o Emitted(q, n, mem)]
        ELSE /\ write_queue' = [write_queue EXCEPT ![s] = q]
             /\ UNCHANGED <<completed, sent>>

\* A script sends on a session, and the first message of a WebSocket session is
\* the reply to its handshake.
MaySend(m) ==
    /\ m \notin asked
    /\ m \notin Replies => \A r \in Replies : To[r] = To[m] => r \in asked

\* send_data: the package is copied into a block and handed to uv_write, and the
\* block is free again when send_data returns.
Send(m) ==
    LET s == To[m] IN
    /\ MaySend(m) /\ conn[s] \in {"open", "shutting"}
    /\ \E b \in BlocksFor(m), len \in Lengths(m) :
          /\ memory' = [c \in Blocks |-> IF c = b THEN m ELSE memory[c]]
          /\ spoiled' = spoiled \cup Overwritten(b)
          /\ UvWrite(s, [msg |-> m, block |-> b, left |-> len], memory')
    /\ wr' = wr \cup {m}
    /\ asked' = asked \cup {m}
    /\ start' = [start EXCEPT ![m] = total[s]]
    /\ total' = [total EXCEPT ![s] = @ + Bytes(m)]
    /\ UNCHANGED <<conn, broken, refused>>

\* send_data on a session whose handle is closed but not yet destroyed: EBADF,
\* and nobody returns the request.
SendRefused(m) ==
    /\ MaySend(m) /\ conn[To[m]] = "closing"
    /\ \E b \in BlocksFor(m) :
          /\ memory' = [c \in Blocks |-> IF c = b THEN m ELSE memory[c]]
          /\ spoiled' = spoiled \cup Overwritten(b)
    /\ wr' = wr \cup {m}
    /\ asked' = asked \cup {m}
    /\ refused' = refused \cup {m}
    /\ UNCHANGED <<uv, start, total, sent>>

\* Other code gets a block that was freed, and writes into it.
Reuse(b) ==
    /\ memory[b] # Junk
    /\ memory' = [memory EXCEPT ![b] = Junk]
    /\ spoiled' = spoiled \cup Overwritten(b)
    /\ UNCHANGED <<uv, wr, asked, refused, start, total, sent>>

\* session_uv::close, once in the life of a session.
Close(s) ==
    /\ conn[s] = "open"
    /\ conn' = [conn EXCEPT ![s] = "shutting"]
    /\ UNCHANGED <<broken, write_queue, completed, wr, memory, ghosts>>
-----------------------------------------------------------------------------
(* The event loop                                                           *)

\* The connection is reset, and what is written from then on fails.
Reset(s) ==
    /\ s \notin broken
    /\ broken' = broken \cup {s}
    /\ UNCHANGED <<conn, write_queue, completed, wr, memory, ghosts>>

\* A bug to look for: a write that failed is not fed to the loop again.
WatchedUnlessFailed(s) ==
    \/ write_queue[s] # <<>> /\ \A i \in 1 .. Len(completed[s]) : completed[s][i].left = 0
    \/ conn[s] = "shutting" /\ completed[s] = <<>>

\* uv__io_start for what is queued and for the shutdown, uv__io_feed for what
\* is completed.
Watched(s) == write_queue[s] # <<>> \/ completed[s] # <<>> \/ conn[s] = "shutting"

\* A bug to look for: the request of a failed write is not freed.
CallbacksOfSuccess(c) == {c[i].msg : i \in {j \in 1 .. Len(c) : c[j].left = 0}}

\* uv__write_callbacks: tcp_write_cb frees the request, whatever the status.
Callbacks(c) == {c[i].msg : i \in 1 .. Len(c)}

\* A bug to look for: the handle is closed at the first shutdown event.
DrainAtOnce(s, q) == conn[s] = "shutting"

\* uv__drain: the shutdown is done, and shutdown_cb closes the handle.
Drain(s, q) == q = <<>> /\ conn[s] = "shutting"

\* uv__stream_io: one write, every callback that is due, and the drain.
PollOut(s, n) ==
    LET q == write_queue[s]
        rest == Remaining(s, q, n) IN
    /\ conn[s] \in {"open", "shutting"} /\ Watched(s)
    /\ n \in Takes(s, q)
    /\ write_queue' = [write_queue EXCEPT ![s] = rest]
    /\ completed' = [completed EXCEPT ![s] = <<>>]
    /\ sent' = [sent EXCEPT ![s] = @ \o Emitted(q, n, memory)]
    /\ wr' = wr \ Callbacks(completed[s] \o Finished(s, q, n))
    /\ conn' = [conn EXCEPT ![s] = IF Drain(s, rest) THEN "closing" ELSE @]
    /\ UNCHANGED <<broken, memory, asked, refused, start, total, spoiled>>

\* close_cb
CloseCb(s) ==
    /\ conn[s] = "closing"
    /\ conn' = [conn EXCEPT ![s] = "closed"]
    /\ UNCHANGED <<broken, write_queue, completed, wr, memory, ghosts>>

\* The socket takes something, if there is anything it could take.
Progress(s) ==
    \E n \in Takes(s, write_queue[s]) :
        /\ n = 0 => \A k \in Takes(s, write_queue[s]) : k = 0
        /\ PollOut(s, n)

PollOutSome(s) == \E n \in Takes(s, write_queue[s]) : PollOut(s, n)

Next ==
    \/ \E m \in Msgs : Send(m) \/ SendRefused(m)
    \/ \E b \in Heap : Reuse(b)
    \/ \E s \in Sessions : Close(s) \/ Reset(s) \/ PollOutSome(s) \/ CloseCb(s)

\* A peer reads, or its connection is reset in the end; one that does neither
\* is excluded.
Fairness == \A s \in Sessions : WF_vars(Progress(s)) /\ WF_vars(CloseCb(s))

Spec == Init /\ [][Next]_vars
FairSpec == Spec /\ Fairness
-----------------------------------------------------------------------------
TypeOK ==
    /\ conn \in [Sessions -> {"open", "shutting", "closing", "closed"}]
    /\ broken \subseteq Sessions
    /\ write_queue \in [Sessions -> Seq(Request)]
    /\ completed \in [Sessions -> Seq(Request)]
    /\ wr \subseteq Msgs
    /\ memory \in [Blocks -> Msgs \cup {Junk}]
    /\ asked \subseteq Msgs /\ refused \subseteq Msgs
    /\ start \in [Msgs -> Nat]
    /\ total \in [Sessions -> Nat]
    /\ sent \in [Sessions -> Seq([msg : Msgs \cup {Junk}, at : Nat])]
    /\ spoiled \subseteq Sessions

\* Byte i on the wire is byte i of the messages accepted for the connection, end
\* to end in the order of the calls to send_data, however the socket cuts them,
\* unless a block was overwritten while it was queued (session_uv.cpp:83-115,
\* stream.c:742-917, 1405-1417).
InOrder ==
    \A s \in Sessions \ spoiled : \A i \in 1 .. Len(sent[s]) :
        LET byte == sent[s][i] IN
        /\ byte.msg \in asked \ refused
        /\ To[byte.msg] = s
        /\ byte.at \in 1 .. Size[byte.msg]
        /\ start[byte.msg] + byte.at = i

\* A session is closed only when everything it accepted went out, what was sent
\* after the close included, unless the connection broke (session_uv.cpp:69-81,
\* stream.c:658-687, 1240-1289).
Flushed ==
    \A s \in Sessions \ broken :
        conn[s] \in {"closing", "closed"} => Len(sent[s]) = total[s]

Queued(s) == Callbacks(write_queue[s]) \cup Callbacks(completed[s])

\* The uv_write_t of a message is in use as long as libuv has it and no longer,
\* whether the write succeeds or fails; only those of a closed handle are lost
\* (session_uv.cpp:30-36, 86; stream.c:1360-1361).
RequestsExact ==
    wr = refused \cup UNION {Queued(s) : s \in Sessions}

\* Every request libuv accepted is called back in the end.
AllReturned ==
    \A m \in Msgs : m \in wr /\ m \notin refused ~> m \notin wr

\* The block of a queued request holds its message: stream.c:1433, `The buffers
\* to be written must remain valid until the callback is called.'
BuffersValid ==
    \A s \in Sessions : \A i \in 1 .. Len(write_queue[s]) :
        LET r == write_queue[s][i] IN
        r.block # Null => memory[r.block] = r.msg
=============================================================================
