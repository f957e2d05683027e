------------------------------ MODULE TcpStream ------------------------------
(***************************************************************************)
(* The receive path of one TCP session (netbus.cpp, tcp_protocol.cpp): the *)
(* buffer libuv reads into (tcp_alloc_cb), the read callback (tcp_read_cb) *)
(* and the loop that cuts packages off the buffer (on_recv_tcp_data).      *)
(*                                                                         *)
(* A buffer holds stream positions: recv_buf[i] = p says that byte p of    *)
(* what the peer sent is stored at index i.  BYTE stands for 256, RECV_LEN *)
(* for 4096, so a package may be as long as BYTE * BYTE - 1.  long_pkg is  *)
(* NULL iff long_pkg_size = 0: the code sets and clears the two together.  *)
(***************************************************************************)
EXTENDS Integers, Sequences

CONSTANTS BYTE,      \* the number of values of a byte
          RECV_LEN,  \* the size of recv_buf
          Stream,    \* the bytes the peer sends
          Start      \* where each package starts, and where the last one ends

Total == Start[Len(Start)]        \* the number of bytes the peer sends
Packages == 1 .. Len(Start) - 1

\* The peer frames its packages: two bytes of length, low byte first, and the
\* length counts the header.
ASSUME StreamAssumption ==
    /\ BYTE \in Nat /\ BYTE >= 2
    /\ RECV_LEN \in 2 .. BYTE * BYTE - 1
    /\ Start \in Seq(Nat) /\ Len(Start) >= 1 /\ Start[1] = 0
    /\ Stream \in [0 .. Total - 1 -> 0 .. BYTE - 1]
    /\ \A k \in Packages :
          /\ Start[k] + 2 <= Start[k + 1]
          /\ Start[k + 1] <= Total
          /\ Start[k + 1] - Start[k] = Stream[Start[k]] + BYTE * Stream[Start[k] + 1]

MaxPkg == BYTE * BYTE - 1
NUL == -1                         \* a byte that is not of the stream
RecvIdx == 0 .. RECV_LEN - 1
LongIdx == 0 .. MaxPkg - 1
Position == NUL .. Total - 1
HeadSize == 2

VARIABLES recv_buf, recved, long_pkg, long_pkg_size,  \* session_uv
          conn,       \* "open", "closing" (is_shutdown), "closed" (destroyed)
          reading,    \* libuv still reads the handle
          pc,         \* "poll": in the event loop, "parse": in on_recv_tcp_data
          read,       \* how many bytes of the stream the kernel has handed out
          delivered,  \* the bodies given to on_recv_client_cmd, in order
          consumed,   \* how many bytes the loop has cut off (ghost)
          miscounted  \* recved has been overwritten (ghost)

buffers == <<recv_buf, recved, long_pkg, long_pkg_size>>
vars == <<buffers, conn, reading, pc, read, delivered, consumed, miscounted>>
-----------------------------------------------------------------------------
ByteAt(p) == IF p = NUL THEN 0 ELSE Stream[p]

\* A bug to look for: the high byte of the length is dropped.
ReadHeaderLowByte(data) == ByteAt(data[0])

\* tcp_protocol::read_header, for at least two bytes of data.
ReadHeader(data) == ByteAt(data[0]) + BYTE * ByteAt(data[1])

Init ==
    /\ recv_buf = [i \in RecvIdx |-> NUL]
    /\ recved = 0
    /\ long_pkg = [i \in LongIdx |-> NUL]
    /\ long_pkg_size = 0
    /\ conn = "open"
    /\ reading = TRUE
    /\ pc = "poll"
    /\ read = 0
    /\ delivered = <<>>
    /\ consumed = 0
    /\ miscounted = FALSE
-----------------------------------------------------------------------------
(* tcp_alloc_cb: a full recv_buf moves to a heap block of the package's     *)
(* size, read from its header.                                             *)

Spills == recved >= RECV_LEN /\ long_pkg_size = 0

AllocSize == IF Spills THEN ReadHeader(recv_buf) ELSE long_pkg_size

AllocLong ==
    IF Spills
    THEN [i \in LongIdx |-> IF i < recved THEN recv_buf[i] ELSE NUL]
    ELSE long_pkg

\* A bug to look for: the bytes already received are not taken off.
RoomIgnoresRecved == IF recved < RECV_LEN THEN RECV_LEN ELSE AllocSize

\* The room handed to libuv.
Room == IF recved < RECV_LEN THEN RECV_LEN - recved ELSE AllocSize - recved

\* The kernel stores n bytes, tcp_read_cb ends them with a zero if that byte is
\* inside the buffer; the one past a heap block is not modelled.
Fill(buf, n) ==
    [i \in DOMAIN buf |->
        IF recved <= i /\ i < recved + n THEN read + (i - recved)
        ELSE IF i = recved + n THEN NUL ELSE buf[i]]

\* The byte past recv_buf is the low byte of recved: a read that fills the
\* buffer clears it before nread is added.
LowByteCleared(n) == recved < RECV_LEN /\ n = RECV_LEN - recved

LowByte == recved % BYTE

Receive(n) ==
    /\ pc = "poll" /\ conn # "closed" /\ reading
    /\ n \in 0 .. Room /\ read + n <= Total
    /\ IF recved < RECV_LEN
       THEN /\ recv_buf' = Fill(recv_buf, n)
            /\ UNCHANGED <<long_pkg, long_pkg_size>>
       ELSE /\ long_pkg' = Fill(AllocLong, n)
            /\ long_pkg_size' = AllocSize
            /\ UNCHANGED recv_buf
    /\ recved' = n + IF LowByteCleared(n) THEN recved - LowByte ELSE recved
    /\ miscounted' = (miscounted \/ (LowByteCleared(n) /\ LowByte # 0))
    /\ read' = read + n
    /\ pc' = "parse"
    /\ UNCHANGED <<conn, reading, delivered, consumed>>

Close == conn' = IF conn = "open" THEN "closing" ELSE conn

\* nread < 0: the peer is gone, libuv stops reading; the buffer was allocated.
ReadEnd ==
    /\ pc = "poll" /\ conn # "closed" /\ reading
    /\ reading' = FALSE
    /\ Close
    /\ long_pkg' = IF recved < RECV_LEN THEN long_pkg ELSE AllocLong
    /\ long_pkg_size' = IF recved < RECV_LEN THEN long_pkg_size ELSE AllocSize
    /\ UNCHANGED <<recv_buf, recved, pc, read, delivered, consumed, miscounted>>
-----------------------------------------------------------------------------
(* on_recv_tcp_data: one action per turn of the loop.                       *)

Data == IF long_pkg_size > 0 THEN long_pkg ELSE recv_buf

\* A bug to look for: a package that ends with the data waits for more.
HasPackageStrict == recved >= HeadSize /\ ReadHeader(Data) < recved

HasPackage == recved >= HeadSize /\ ReadHeader(Data) <= recved

\* memmove of what follows a package of size bytes to the front.
Shift(buf, size) ==
    [i \in DOMAIN buf |-> IF i < recved - size THEN buf[i + size] ELSE buf[i]]

Body(size) == [i \in 1 .. size - HeadSize |-> Data[i + HeadSize - 1]]

\* A bug to look for: the loop does not move the rest of the data.
CutWithoutMove(size) ==
    /\ recved' = recved - size
    /\ long_pkg_size' = IF recved' = 0 THEN 0 ELSE long_pkg_size
    /\ UNCHANGED <<recv_buf, long_pkg>>

\* A package is cut off; a long one that is done goes back to the heap.
Cut(size) ==
    /\ recved' = recved - size
    /\ IF long_pkg_size = 0
       THEN recv_buf' = Shift(recv_buf, size) /\ UNCHANGED <<long_pkg, long_pkg_size>>
       ELSE /\ UNCHANGED recv_buf
            /\ IF recved' = 0
               THEN long_pkg' = [i \in LongIdx |-> NUL] /\ long_pkg_size' = 0
               ELSE long_pkg' = Shift(long_pkg, size) /\ UNCHANGED long_pkg_size

\* A package of less than HeadSize bytes gives the decoder a negative length,
\* which it refuses.  ok is the service's answer: FALSE closes the session, and
\* the loop goes on with the data it has.
ParsePackage(ok) ==
    LET size == ReadHeader(Data) IN
    /\ pc = "parse" /\ HasPackage
    /\ Cut(size)
    /\ consumed' = consumed + size
    /\ IF size >= HeadSize
       THEN /\ delivered' = Append(delivered, Body(size))
            /\ IF ok THEN UNCHANGED conn ELSE Close
       ELSE UNCHANGED <<delivered, conn>>
    /\ UNCHANGED <<reading, pc, read, miscounted>>

ParseEnd ==
    /\ pc = "parse" /\ ~HasPackage
    /\ pc' = "poll"
    /\ UNCHANGED <<buffers, conn, reading, read, delivered, consumed, miscounted>>

\* shutdown_cb, then close_cb: the session is destroyed; long_pkg stays behind.
Closed ==
    /\ pc = "poll" /\ conn = "closing"
    /\ conn' = "closed"
    /\ reading' = FALSE
    /\ UNCHANGED <<buffers, pc, read, delivered, consumed, miscounted>>

\* The event loop goes on without this session.
Gone == conn = "closed" /\ UNCHANGED vars

Parse == (\E ok \in BOOLEAN : ParsePackage(ok)) \/ ParseEnd

Next == (\E n \in 0 .. MaxPkg : Receive(n)) \/ ReadEnd \/ Parse \/ Closed \/ Gone

\* The loop of on_recv_tcp_data runs on, and a handle polled again and again
\* while the peer's bytes are on their way is at last given some.
Fairness ==
    /\ WF_vars(Parse)
    /\ SF_vars(\E n \in 1 .. MaxPkg : Receive(n))

Spec == Init /\ [][Next]_vars
FairSpec == Spec /\ Fairness
-----------------------------------------------------------------------------
TypeOK ==
    /\ recv_buf \in [RecvIdx -> Position]
    /\ long_pkg \in [LongIdx -> Position]
    /\ recved \in Nat
    /\ long_pkg_size \in 0 .. MaxPkg
    /\ recved <= IF long_pkg_size = 0 THEN RECV_LEN ELSE long_pkg_size
    /\ conn \in {"open", "closing", "closed"}
    /\ reading \in BOOLEAN
    /\ pc \in {"poll", "parse"}
    /\ read \in 0 .. Total
    /\ delivered \in Seq(Seq(Position))
    /\ consumed \in Nat
    /\ miscounted \in BOOLEAN

\* Whenever the event loop polls, tcp_alloc_cb has room for at least one byte
\* (netbus.cpp:157-185): a full recv_buf never waits with a package that is
\* already complete, which libuv would answer with UV_ENOBUFS and the read
\* callback with a close.  It holds even after a miscount.
RoomToRead == pc = "poll" => Room > 0

Bodies ==
    [k \in Packages |-> [i \in 1 .. Start[k + 1] - Start[k] - HeadSize |->
                            Start[k] + HeadSize + i - 1]]

Channel == INSTANCE PacketChannel
    WITH Messages <- Bodies, received <- delivered, lost <- miscounted

\* However the kernel cuts the stream into reads, and however packages straddle
\* recv_buf and long_pkg, the services are given exactly the bodies the peer
\* sent, in order, as long as recved has not been overwritten (netbus.cpp:50-89,
\* 153-187, 252-292).
ImplementsChannel == Channel!Spec

\* Every package the peer sent is delivered in the end, unless the session is
\* closed or recved has been overwritten.
AllDelivered ==
    <>(Len(delivered) = Len(Start) - 1 \/ conn # "open" \/ miscounted)

\* recved is the number of bytes received and not yet consumed (session_uv.h:43,
\* netbus.cpp:271).
RecvedIsReceived == recved = read - consumed
=============================================================================
