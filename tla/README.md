# Verification of gameFramework

TLA+ models of the game server framework in `src/src`: the memory pools, what
comes in over TCP and WebSocket and what goes out, the life of a session, the
timers and the database wrappers, checked by TLC on small instances and, where
the tables below say so, proved by TLAPS for every value of the constants. Of
the vendored code in `src/3rd` the three parts of libuv the server's promises
rest on are modelled from their source: stream writes, timers and the thread
pool. `src/proj/test` holds experiments and `src/test/apps` sample programs;
they are read for how the framework is used.

## 1. The system

One thread runs libuv's event loop (`netbus::run`). It accepts connections,
reads from sockets, cuts packages, decodes commands and hands them to services,
most of them written in Lua. Database calls go to libuv's pool of worker
threads and come back as callbacks on the loop thread. So there are two kinds
of concurrency: callbacks and events interleaving on the loop thread, with Lua
scripts that keep raw pointers from one event to a later one, and the worker
threads of the database wrappers.

| component | state | operations | talks to |
|---|---|---|---|
| `utils/cache.c` pools | free list inside the elements | create, `cache_alloc`, `cache_free` | malloc; used for sessions, write requests, packages |
| TCP receive path (`netbus.cpp`, `tcp_protocol.cpp`) | `recv_buf`, `recved`, `long_pkg`, `long_pkg_size` | `tcp_alloc_cb`, `tcp_read_cb`, `on_recv_tcp_data` | libuv, `on_recv_client_cmd` |
| session (`session_uv.cpp`, `netbus.cpp`) | `is_shutdown`, `as_client`, `utag`, `uid`, the libuv handle | create, close, destroy, accept, connect | pools, libuv, services |
| write path (`session_uv.cpp`, the two protocols, libuv's `stream.c`) | packages and their memory, `uv_write_t`, libuv's write queue | package, `send_data`, uv_write, callbacks, shutdown and drain | sessions, the socket, malloc |
| services (`service_manager.cpp`, `service_export_to_lua.cpp`) | `g_service_set` | register, dispatch, disconnect broadcast | sessions, Lua |
| `mysql_wrapper.cpp`, `redis_wrapper.cpp` | a connection with a mutex and `is_closed` | connect, query, close | libuv's work queue (`threadpool.c`), Lua callbacks |
| timers (`time_list.c`, `scheduler_export_to_lua.cpp`, libuv's `timer.c`) | `struct timer`, `repeat_data`, the heap of the loop | schedule, fire, cancel | libuv, Lua |
| WebSocket (`ws_protocol.cpp`, `netbus.cpp`) | `is_ws_shake`, the same buffers | handshake, frame header, unmask, package | session, http_parser |
| `proto_man.cpp` | the command table, JSON or protobuf | decode, encode, free | on_recv_client_cmd, send_msg |
| UDP (`session_udp.cpp`, `netbus.cpp`) | one receive buffer | receive, send | on_recv_client_cmd |
| logger | the open file, the day, static buffers | init, log | everybody, worker threads too |
| crypto, timestamp | none | pure functions | WebSocket handshake, Lua |

### What is hard, and what makes each component correct

* **Pools.** The list runs through memory clients write. Correct: the list
  holds exactly the elements nobody holds, after any sequence of calls.
* **Receive path.** The kernel cuts the stream anywhere; packages straddle
  reads and move from one buffer to another. Correct: services get the bodies
  the peer sent, whole, in order, once, and none waits for ever.
* **Sessions and services.** A session can be closed by the peer, a refused
  command, a script, or a failed connect, in any order and more than once, by
  pointers that may be stale. Correct: its end is broadcast once, then its
  memory is freed once, after libuv is done with it, and in the end, unless
  scripts go on sending for ever. What a stale pointer finds in memory that went
  back to `malloc` is beyond the code's control.
* **Database wrappers.** Worker threads share a connection through its mutex,
  the loop thread closes and frees it. Correct: one worker at a time inside a
  connection, closed once, each accepted query called back once, and in the end.
* **Write path.** A package is given back to the heap when libuv has only queued
  it; sockets take parts, break, and are closed with packages queued. Correct: a
  connection carries what was accepted for it, in order, all of it before the
  close, and every request comes back.
* **WebSocket.** The handshake and the frames after it arrive in any pieces, and
  the body is unmasked in the buffer. Correct: bodies whole, unmasked once, in
  order, none from a close frame on.
* **Timers.** A timer is two blocks of memory with a counter each; callbacks make
  and cancel timers, their own too; the loop may be late. Correct: both blocks
  freed together and once, clients get the calls they asked for and no more, a
  pass over the timers ends.
* **Codecs.** Correct: what one side packages the other reads back.
* **Logger.** Static buffers shared by threads, rotation at midnight.

PROJECT.json lists each hazard at its line with the properties that cover it, or
says why none does: requests and sessions that leak, a callback that never comes
and the handshake reply overwritten in its static buffer are in the models, but
no run shows them going wrong.

## 2. Modules

| module | models | kind |
|---|---|---|
| `BlockAllocator` | what an allocator with a heap behind it promises | abstract |
| `CachePool` | `utils/cache.c` | detailed, implements `BlockAllocator` |
| `PacketChannel` | in-order delivery of messages | abstract |
| `TcpStream` | the TCP receive path of one session | detailed, implements `PacketChannel` |
| `ClientLifecycle` | a connection arrives, its leaving is announced, it vanishes | abstract |
| `Session` | sessions, services table and the scripts that hold pointers; takes memory from `BlockAllocator` | composition, implements `ClientLifecycle` |
| `SendPath` | packages, `uv_write`, the queue, the close | detailed |
| `WsStream` | the receive path of one WebSocket session | detailed, implements `PacketChannel` |
| `Alarm` | as many calls as were asked for, none after the last | abstract |
| `Timer` | `time_list.c`, the Lua scheduler, libuv's timer heap | detailed, implements `Alarm` |
| `UvWork` | libuv's work queue and its workers | component of the two below |
| `RequestReply` | a callback for an accepted request, at most one | abstract |
| `MysqlWrapper`, `RedisWrapper` | the database wrappers, over `UvWork` | detailed, implement `RequestReply` |
| `CachePoolProofs`, `TcpStreamProofs`, `WsStreamProofs`, `SessionProofs`, `SendPathProofs`, `TimerProofs`, `MysqlWrapperProofs`, `RedisWrapperProofs` | theorems | proofs |
| `MC*` | constants for TLC | instances |

### CachePool

`free_list` and `next` are the fields of `cache_allocer` and `node`; an element
is its index in `cache_mem`, so `InPool` is the code's address range test.
`live` is what clients hold. `ClientWrite` is the client's use of the memory:
the first word of an element is the list's link and the client's data in turn.
`Heap` bounds what `malloc` returns; `malloc` never fails in the model.
`destroy_cache_allocer` is never called and not modelled. `parity` is a ghost:
it makes every allocation a step of the abstract allocator, so that handing out
memory twice cannot pass for a stutter.

### TcpStream

Buffers hold stream positions instead of bytes, so a body can be compared with
the one the peer sent and a stale byte cannot pass for the right one. `Receive`
is `tcp_alloc_cb`, the kernel's read and `tcp_read_cb` up to the call of
`on_recv_tcp_data`; each turn of its loop is one `ParsePackage`, and `ParseEnd`
leaves it. The answer of the service (accepted or refused, which closes the
session) is a choice, and the loop does not look at `is_shutdown`. The write
`buf->base[nread] = 0` is modelled where it lands: `recv_buf` is followed by
`recved` in `session_uv`, so a read that fills the buffer clears `recved`'s low
byte (`LowByteCleared`). `miscounted` records that this has changed it; the
abstract channel then promises nothing, and the run `tcp_miscount` shows it is
reached. The byte written past a heap block is not modelled.

Assumption `StreamAssumption`: the peer frames its packages, each at least two
bytes. What headers of 0 and 1 do (an endless loop, a negative length) is listed
as a hazard.

### Session

Everything on the loop thread; one action per libuv callback, with the calls it
makes. `Close` is `session_uv::close`: broadcast, flag, `uv_shutdown`. `handle`
is libuv's side: `none` (no socket), `socket` (made for a connect that failed at
once), `connecting`, `open`, `shutting` (shutdown requested, waiting for queued
writes), `closing`. `held` are the pointers scripts keep; a script
that runs for one session may close, send to or set the uid of any of them,
whether or not its memory is still that session. `Create` leaves `uid` and
`as_client` as the pool element has them, and arbitrary in malloc'd memory.

What a stale pointer finds depends on the memory. `cache_free` writes the link of
the free list over the first word of a pool element and nothing else, so a freed
element still says `is_shutdown`, and a stale `close` returns at once. A session
that spilled to the heap goes to `free`, and the next `malloc` of the process may
overwrite it: `Overwrite` clears the mark, at any time and again and again
(`MaxHeard` bounds how often that leads to a broadcast). A stale `close` then
broadcasts the end of a connection that is gone and calls `uv_shutdown` on what
is left of the handle, which refuses it, or the process ends (`WildCall`). The
ghost `spoiled` has the connections this may happen to. Limits: in overwritten
memory `handle` stays `none`, so a garbage handle that `uv_shutdown` or
`uv_write` accepts is not modelled, nor is what a stale pointer writes into
memory that is somebody else's.

`WildCall`: sessions are never constructed (`session_uv.cpp:143` is commented
out), so a virtual call on one is undefined; a build that resolves the call
statically runs, any other may end the process, and both are in the model.
Facts of the vendored libuv used: a handle with a socket accepts `uv_shutdown`
and `uv_write`, one on which `connect(2)` failed at once included, since
`uv__tcp_connect` makes the socket first (`tcp.c:153-175`); reading stops at the end of the stream, not at
`uv_shutdown`; `uv_write` on a handle without a socket fails and never calls
back (`lost`). A script does not use a session that is still connecting, which
is an assumption. Accept and `uv_read_start` do not fail. That a write completes or is lost is a
choice here; what is written is in `SendPath`.

The broadcast of a disconnect calls `on_session_disconnect(session*)`
(`service_manager.cpp:50`), an overload that `lua_service` does not override: it
overrides the one with two parameters (`service_export_to_lua.cpp:172`). Lua
services are therefore never told. The choice is made at compile time, so no
property states it.

### SendPath

Several sessions, because their packages share memory: the pool made for them
(`wbuf_allocer`) has elements of `sizeof(CMD_CACHE_SIZE)`, four bytes, so every
package comes from `malloc` and goes back to it when `send_data` returns. The
next package, of any session, and any other code (`Reuse`) may get the block.
The reply to a WebSocket handshake is in a static buffer of `ws_protocol`.

| in the model | in the code |
|---|---|
| `write_queue`, `completed` | libuv's queues of the stream; a request has its message, its block and the bytes left |
| `wr` | the `uv_write_t` taken from `wr_allocer` and not returned |
| `Takes`, `Fails`, `Advance` | one `write(2)`: any part of what is left, nothing (EAGAIN), or an error |
| `PollOut` | `uv__stream_io`: one write, every callback due, then `uv__drain` |
| `Reset` | the connection breaks: each later write fails |
| `memory`, `sent` | what a block holds; byte by byte, what went out |
| `asked`, `refused`, `start`, `total`, `spoiled` | ghosts: messages sent and refused, where each begins in its stream, and the sessions that had a queued block overwritten |

A byte on the wire is the message its block holds at that moment and its place
in the package, so a byte of another message cannot pass for the right one.
`InOrder` holds for sessions never spoiled; that sessions are spoiled is what the
run `send_buffer` shows. A message of 65536 bytes or more is not packaged by
`ws_protocol`, yet written: a NULL package whose length was never set, 0 or not
in the model. Assumptions: an error of `write` other than EAGAIN is final for the
connection; a message is sent once; no write is made after `close_cb`.

### WsStream

The buffers and the byte past `recv_buf` are those of `TcpStream`; here they hold
bytes, since the code changes them in place (`Unmask`). The handshake is parsed
from its beginning with every read until it is complete, and what is in the
buffer is then dropped. One turn of the loop of `on_recv_ws_data` is one
`ParseFrame`; a close frame is left in the buffer (`ParseClose`). When bytes that
are no data frame fill `recv_buf`, `tcp_alloc_cb` allocates a block whose size
`read_ws_header` did not set: `AllocUnset` ends the run there, the size being
undefined. `Xor` is a constant with the one law the code needs. `Wire`, the bytes
of the frames end to end, and `Start`, where each begins, are constants that
`WireAssumption` pins down: defined by recursion over the frames they would be
out of the prover's reach. The .cfg gives them the recursive definitions of
`MCWsStream`, and TLC checks the assumption.

`WsAssumption` says of the sizes what the code's have: a short length leaves the
mask bit alone (126 is below 128), a handshake fits `recv_buf`, and so do the
four bytes `read_ws_header` may look at. Assumptions on the peer: it masks its frames, sends only text, binary and close
frames, waits for the reply to its handshake, and keeps the handshake shorter
than `RECV_LEN` and frames below 65536 bytes, whose length
`read_ws_header` reads with two bytes only.

### Timer

A Lua timer is a `struct timer`, which `on_uv_timer` counts down, and a
`repeat_data`, which `on_lua_repeat_timer` counts down; each frees its own block.
`active`, `left`, `older` and `repeat` are libuv's `uv_timer_t`: `left` is the
timeout relative to `loop->time`, `older` the order of start ids. `UpdateTime` is
the clock moving, past several periods too; `FireTimer` stops the first timer
due, starts it again and enters its callback, `Return` is the rest of
`on_uv_timer`. While a callback runs (`frame`) any client may make or cancel
timers, its own too; `fired` and `owed` are ghosts. `LuaCancel` does nothing, as
in the code: `lua_cancel_timer` asks for a table where the schedule functions
returned a userdata. `Return` of a finite timer that was cancelled in its own
callback reads and may free again what is free, which may end the process.
Assumptions: delays are not 0 (`lua_schedule_repeat` refuses them); C++ callers
of `schedule_repeat`, which checks nothing (`time_list.c:54-67`), ask for a count
that is not 0 and a period above 0 (`NativeSchedule`; there are none today but
`schedule_once` and the Lua binding, which do); clients do not cancel a timer
that is gone. A timer is freed without `uv_close`; libuv's
list of handles, which then names freed memory, is not in the model.

### MysqlWrapper and RedisWrapper

Two kinds of actors: the loop thread (what scripts call, and the callbacks, each
atomic) and the workers. `started`, `queue`, `job` and `done` are libuv's
(`UvWork`, from `threadpool.c`): the workers `init_once` started, any number from
one on as `UV_THREADPOOL_SIZE` says, requests no worker has taken, the one each
worker runs, those whose callback is due. A work
function is cut where another thread can get in between: at `uv_mutex_lock`
(`Lock`), before it where it reads the connection without the lock
(`ReadContext`, redis only), and at its end (`QueryWork`, `CloseWork`).

| in the model | in the code |
|---|---|
| `mem` | the memory of the `mysql_Conn` / `redis_Conn` and whether the connect succeeded |
| `held` | connections a script has been given by the connect callback and may use for ever |
| `is_closed`, `locked` | the fields `is_closed` and `lock` |
| `context`, `rc` | redis: the field `Conn`, and each worker's local copy of it |
| `inside` | workers between lock and unlock |
| `leaked`, `closes`, `made`, `asked`, `answers` | ghosts: what was left locked, closed, asked for and called back |

Undefined behaviour is a choice. `on_close_complete` frees the connection
whatever is queued on it: a worker that then locks the mutex waits for ever
(`stuck`), ends the process, or goes on and fails with an error (`LockFreed`;
`free` has overwritten `Conn`, the first word of the struct, so the wild pointer
is not the old connection). A query on a handle that `mysql_close` or
`redisFree` has freed fails or ends the process (`QueryCrash`). `is_closed` of
freed memory keeps its value or is overwritten once, when it is freed. Not
modelled: freed memory that becomes another connection, the contents of results,
failure to start a work request.

## 3. Runs

| run | question | bounds and why they are enough |
|---|---|---|
| `pool` | is the list exact, does the pool implement an allocator | 4 elements, 2 heap blocks, a size that fits and one that does not, every word a client can write: all orders of alloc and free, exhaustion, frees of both kinds |
| `tcp_stream` | are bodies delivered, in order, in the end | a byte of 4 values, `RECV_LEN` 8, packages of 3, 8, 5, 11, 2, 9, 4 bytes: shorter, equal to and longer than the buffer, a length with a high byte; every cut into reads |
| `tcp_miscount` | is `recved` what was received (**violated**) | as above |
| `session` | are broadcast and destruction once and in order, and is a closed session destroyed if the sends stop | 3 connections, 1 pool element, 1 heap block, 1 service: exhaustion, reuse of both kinds of memory while another session is alive, stale pointers, freed heap memory overwritten; 2 queued writes, the fewest with which a script can keep the queue from emptying; 1 lost write; a second broadcast (`MaxHeard` 2); no symmetry, for the liveness |
| `session_identity` | does a session start as nobody (**violated**) | pool memory only |
| `mysql`, `redis` | one worker inside a connection, one close, at most one callback, one in the end; for redis also, with one worker, no command on a connection closed before it | 1 or 2 workers, 2 connections, 2 queries: a query behind another on one mutex, a close between them, both workers blocked, one connection blocking the other |
| `mysql_lock` | is the mutex held only by a worker inside (**violated**) | as `mysql` |
| `timer` | are both halves of a timer freed together, are the calls made, does a pass end | 2 timers, delays of 1 and 2, counts that end at once, later and never, periods given, 0 and negative, a clock that jumps over two periods: a timer that fires, ends, is cancelled or made in the callback of the other |
| `send` | is what goes out in order, complete before a close, is every request called back | 2 sessions, 1 heap block, 4 messages: two on one session of which one is too long, a handshake's reply and a message on the other; packages of 1 or 2 bytes, taken in any parts; a close and a reset of each session at any time |
| `send_buffer` | does a queued package stay what it is (**violated**) | as `send` |
| `ws_stream` | are bodies delivered, unmasked once and in order, and nothing after a close frame | a byte of 8 values, `RECV_LEN` 10, a handshake of 5 bytes, frames of 7, 10, 13, 6, 6 (close) and 7 bytes: shorter than the buffer, as long, longer, short and long length field, empty; every cut into reads |

The violated properties are what comments and declarations of the repository
say. `tcp_miscount`: `recved` is documented as what was received, and the
terminator of a read that fills the buffer overwrites it. `session_identity`: a
session in reused memory has the `uid` of the one before. `mysql_lock`: a
statement without a result set leaves the mutex locked. `send_buffer`: libuv asks
that buffers stay valid until the callback, and `send_data` returns them at once.

The sample `proj/test/main.lua` sends a redis command and closes at once.
`CommandsBeforeClose` says when that is right: with one worker. With more, the
close may overtake the command on another worker; the model has that order, and
what becomes of the command then (`LockFreed`, `QueryCrash`).

Deadlock is checked in every run but those of the wrappers, where all workers
may be blocked or the process gone, and of `SendPath`, where every session may be
closed and every message sent; `Gone` and `Rest` are the loop going on without
anything to do for this part.

### Fairness

* `TcpStream`: the parse loop goes on (weak); a handle that is polled again and
  again while bytes are under way gets some (strong; a read may return 0 bytes).
* `Session`: a queued write completes or fails (weak; excludes a peer that keeps
  the connection open without reading), the shutdown callback comes when the
  handle waits for it with an empty queue, and the close callback comes (weak).
  Nothing stronger is owed: libuv writes one request per event and calls the
  shutdown only if the queue is empty then (`stream.c:899-900, 1281-1287`), while
  it goes on reading commands, so scripts that send in time keep the shutdown
  away for ever. `ClosedIsDestroyed` therefore has a second disjunct, that sends
  to the connection go on for ever; without it TLC finds two writes queued by
  turns. Peers, scripts and connects owe nothing.
* `WsStream`: as `TcpStream`.
* `SendPath`: for each session, a write that makes progress happens in the end
  and the close callback comes (weak): a peer reads or is reset.
* `Timer`: callbacks return and the pass goes on (weak); the clock moves again
  and again (strong: between two passes other callbacks run).
* `MysqlWrapper`, `RedisWrapper`: a worker that can go on does (weak), and the
  loop calls back what is done (weak). This assumes that the database answers or
  its connection breaks. That a worker gets a mutex needs no strong fairness on
  these instances, because queries are finitely many. A query the wrapper refuses after a close is never
  answered, and nothing checked says otherwise. `AllAnswered` excepts what
  the code does not survive: the process ended, a worker in freed memory, and for
  MySQL a mutex that was left locked.

## 4. Proofs

`CachePoolProofs`: `PoolExact` (type correctness and `FreeListExact`) and
`PoolImplementsAllocator`, for every capacity, element size and set of requests,
under `PoolAssumption`. The invariant says that some sequence without
duplicates lists the chain from `free_list` through `next` and covers what is
not live; a step extends or shortens that sequence by one. `FreeListExact` is
itself inductive with the types.

`TcpStreamProofs`: `RoomForever` and `StreamImplementsChannel`, for every byte
size, buffer size and framed stream, under `StreamAssumption`. `RoomToRead`
alone is not inductive: that a full buffer holds no complete package is known
only when the loop has ended (`NoneComplete`), the block has the size the header
asked for (`LongSized`), and, while `recved` is right, the buffer holds the
stream from `consumed` on and `consumed` is the start of the next package to
deliver (`Framed`).

`SessionProofs`: `SessionTypes`, `SessionHandlesAlive`, `SessionBroadcastOnce`,
`SessionPoolBroadcastOnce` and `SessionImplementsLifecycle`, for any connections,
memory and services. `BroadcastOnce` is not inductive: a stale pointer may close
memory that is no session any more. Such memory still says `is_shutdown`, unless
it was overwritten on the heap (`Marked`), and then its connection is gone and no
session in use is taken for it (`Past`), so the broadcast can only repeat the end
of a connection in `spoiled`. Besides, sessions in use belong to one connection
each (`Owned`) and what scripts kept was a session once (`HeldKnown`). As long as
no session spills to the heap nothing is spoiled, and the end is broadcast
exactly once for every connection: `SessionPoolBroadcastOnce`. The mark in a
freed pool element is a fact of `cache.c`; nothing is assumed of `malloc`.

`SendPathProofs`: `SendTypes`, `SendInOrder`, `SendFlushed` and
`SendRequestsExact`, for any sessions, messages, package lengths and heap. The
invariant follows the bytes: what is left of the queue and what was sent are the
messages accepted, end to end (`Chained`), the blocks of a session never spoiled
hold their messages (`IntactQueues`), a request is queued or completed, not both
(`Shape`), and a closed handle has neither (`ClosedEmpty`).

`TimerProofs`: `TimerTypes`, `TimerLockstep`, `TimerPassEnds` and
`TimerImplementsAlarm`, for any timers, delays, periods, counts and clock.
`Lockstep` speaks of the time between callbacks; `Halves` says what both counters
are inside one too, where one of them is a call ahead, and `LuaFrame` that a
script's timer is still there when its callback returns.

`WsStreamProofs`: `WsTypes`, `WsImplementsChannel`, `WsRoomToRead` and
`WsUnsetBehindClose`, for every byte and buffer size, frames, masks, handshake
length and cut into reads, under `WsAssumption` and `WireAssumption`. The
invariant `Inv` was checked by TLC on the instance of `ws_stream` first.

* Before the handshake is complete nothing else has been received and no frame
  has been looked at (`Shaking`), so dropping the buffer drops no frame.
* `NoneComplete` and `LongSized` are as in `TcpStreamProofs`. They hold after a
  miscount too: the types and `WsRoomToRead` do not depend on `recved` being
  right. That a block holds the one frame it was made for is why cutting it off
  leaves nothing, and why the code may free the block.
* While `recved` is right, the buffer holds `Wire` from the start of the frame
  the loop is at (`Contiguous`), and the bodies before it were handed over
  (`HandedOver`). `EncodeFacts` says where header, mask and body are in a frame's
  bytes, `FrameHeader` that `read_ws_header` reads back the length of any body
  below 65536 bytes, `FrameBody` that unmasking gives the body that was masked
  and `UnmaskFacts` that it leaves what is behind the frame alone.
* The channel's messages are the bodies up to the first close frame; that these
  are the first so many is `BeforeCloseInterval`.
* `WsUnsetBehindClose`: short of a miscount, only data behind a close frame makes
  `tcp_alloc_cb` use a size that was not set. In the model that does happen.

`MysqlWrapperProofs` and `RedisWrapperProofs` begin with the same lemmas about
`UvWork`: the queue keeps its types, and a request that is once in the pool stays
there once on its way from queue to worker to callback (`Once`, `Gone`, and
`OneOf`, `NoneOf` for a sequence).

* `MysqlExclusive`, `RedisExclusive`: no two workers are inside one connection,
  for any number of workers, connections and requests. `Exclusive` is not
  inductive: that the connection of a worker inside is locked (`InsideLocked`),
  and that such a worker runs a query or a close and so does not change its
  request on the way, is what keeps the next one out. The mutex left locked by a
  statement without a result set, and freed memory, do not hurt it.
* `MysqlClosedOnce`, `RedisClosedOnce`: a connection is closed once, whatever
  freed memory says of `is_closed`. `Counted`: a
  connection has at most one connect in the pool, at most one close until its
  memory is freed, none once it is closed, and a close that is inside has not
  closed it yet.
* `MysqlImplementsInterface`, `RedisImplementsInterface`: a request is in the
  pool once or not at all, and not at all when it was called back (`Answered`).
* `RedisCommandsBeforeClose`: with one worker, the queue of a connection that is
  not freed has no command behind a close (`Ordered`), and the context the worker
  has read is open until it has run its command (`ReadOpen`).

`MysqlAssumption` and `RedisAssumption` say that `NoWork` and `NoRequest` are no
requests. No proof uses more about the constants than the named assumptions.

Every safety invariant, action property and refinement the runs check has its
theorem. Only model-checked: liveness (`AllDelivered`, `ClosedIsDestroyed`,
`AllAnswered`, `AllCalled`, `AllReturned`, `Settled`), which with fairness and
ENABLED is out of the prover's reach. The violated properties have no theorem.

## 5. What could be added

1. A peer of `WsStream` that sends pings and fragments, and what a 127 length
   field does to the frames behind it.
2. Headers: what `tcp_protocol::package` and `ws_protocol` write against what the
   receive paths read, for every length.

## 6. Not modelled

* `proto_man`: what it does is what the protobuf and JSON libraries do with bytes
  and reflection; its own table is filled once at start.
* UDP: nothing is kept from one datagram to the next. `udp_recv_cb` reads the
  sender's address of every call, while libuv calls it without one when there is
  nothing more to read (`udp.c:185-186`), so a listening server does not get past
  its first quiet moment; the samples have it commented out.
* Logger: formatting and one open file. The worker threads log through the same
  static buffers as the loop thread, a data race whose outcome is the text of a
  line.
* Base64, SHA-1, `timestamp.c` (a copy of the BSD `strptime`): pure functions.
* Table and message conversion in the Lua bindings, and their argument checks.
* The rest of the vendored code, the sample programs, `destroy_cache_allocer`,
  which nothing calls, and failure of `malloc`.
