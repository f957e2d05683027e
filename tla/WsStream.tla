------------------------------ MODULE WsStream ------------------------------
(***************************************************************************)
(* The receive path of one WebSocket session (netbus.cpp, ws_protocol.cpp):*)
(* the handshake, which is parsed again from its beginning with every read,*)
(* then frames, which are cut off the buffer, unmasked in place and handed *)
(* to on_recv_client_cmd, until a close frame.                             *)
(*                                                                         *)
(* BYTE stands for 256, RECV_LEN for 4096 and SHORT for 126; the text of a *)
(* handshake is abstracted to its length.  Frames of 65536 bytes and more, *)
(* whose length read_ws_header misreads, are outside this model, and so is *)
(* a handshake that does not fit recv_buf.                                 *)
(***************************************************************************)
EXTENDS Integers, Sequences

CONSTANTS BYTE,      \* the number of values of a byte
          SHORT,     \* the length field that announces a longer length
          RECV_LEN,  \* the size of recv_buf
          TEXT, BINARY, CLOSE,   \* 0x81, 0x82, 0x88
          Xor,       \* the exclusive or of two bytes
          Shake,     \* the length of the handshake
          Frames,    \* what the peer sends: [op, mask, body]
          Wire,      \* the bytes it sends them as
          Start      \* where each frame starts in Wire, and where the last one ends

Byte == 0 .. BYTE - 1
MaskSize == 4

ASSUME WsAssumption ==
    /\ BYTE \in Nat /\ SHORT \in 0 .. BYTE \div 2 - 1
    /\ {TEXT, BINARY, CLOSE} \subseteq Byte /\ CLOSE \notin {TEXT, BINARY}
    /\ Xor \in [Byte -> [Byte -> Byte]]
    /\ \A a, b \in Byte : Xor[Xor[a][b]][b] = a
    /\ RECV_LEN \in Nat /\ RECV_LEN >= 4   \* what read_ws_header looks at
    /\ Shake \in 1 .. RECV_LEN - 1
    /\ Frames \in Seq([op : {TEXT, BINARY, CLOSE}, mask : [0 .. MaskSize - 1 -> Byte],
                        body : Seq(Byte)])
    /\ \A k \in 1 .. Len(Frames) : Len(Frames[k].body) < BYTE * BYTE
-----------------------------------------------------------------------------
(* The peer.  A client masks what it sends, and the top bit of the second   *)
(* byte says so.                                                            *)

Masked(f) == [i \in 1 .. Len(f.body) |-> Xor[f.body[i]][f.mask[(i - 1) % MaskSize]]]

Encode(f) ==
    LET len == Len(f.body) IN
    <<f.op, BYTE \div 2 + IF len < SHORT THEN len ELSE SHORT>>
        \o (IF len < SHORT THEN <<>> ELSE <<len \div BYTE, len % BYTE>>)
        \o [i \in 1 .. MaskSize |-> f.mask[i - 1]]
        \o Masked(f)

\* The frames follow each other.
ASSUME WireAssumption ==
    /\ Wire \in Seq(Byte)
    /\ Start \in [1 .. Len(Frames) + 1 -> 0 .. Len(Wire)]
    /\ Start[1] = 0 /\ Start[Len(Frames) + 1] = Len(Wire)
    /\ \A k \in 1 .. Len(Frames) :
          /\ Start[k + 1] = Start[k] + Len(Encode(Frames[k]))
          /\ \A i \in 1 .. Len(Encode(Frames[k])) :
                 Wire[Start[k] + i] = Encode(Frames[k])[i]

\* A client waits for the reply to its handshake before it sends a frame.
Sendable(shaken) == Shake + IF shaken THEN Len(Wire) ELSE 0

NUL == 0
ByteAt(p) == IF p < Shake THEN NUL ELSE Wire[p - Shake + 1]
-----------------------------------------------------------------------------
VARIABLES recv_buf, recved, long_pkg, long_pkg_size,  \* session_uv
          is_ws_shake,
          conn,       \* "open", "closing" (is_shutdown), "closed" (destroyed)
          reading,    \* libuv still reads the handle
          pc,         \* "poll": in the event loop, "parse": in on_recv_ws_data,
                      \* "undefined": a block of an unset size was allocated
          read,       \* how many bytes of the stream the kernel has handed out
          delivered,  \* the bodies given to on_recv_client_cmd, in order
          miscounted  \* recved has been overwritten (ghost)

buffers == <<recv_buf, recved, long_pkg, long_pkg_size>>
vars == <<buffers, is_ws_shake, conn, reading, pc, read, delivered, miscounted>>

NoPkg == [i \in {} |-> NUL]

Init ==
    /\ recv_buf = [i \in 0 .. RECV_LEN - 1 |-> NUL]
    /\ recved = 0
    /\ long_pkg = NoPkg /\ long_pkg_size = 0
    /\ is_ws_shake = FALSE
    /\ conn = "open"
    /\ reading = TRUE
    /\ pc = "poll"
    /\ read = 0
    /\ delivered = <<>>
    /\ miscounted = FALSE

Close == conn' = IF conn = "open" THEN "closing" ELSE conn
-----------------------------------------------------------------------------
(* ws_protocol::read_ws_header                                              *)

LenField(data) == data[1] % (BYTE \div 2)

HeadSize(data) == MaskSize + IF LenField(data) < SHORT THEN 2 ELSE 4

HasHeader(data) ==
    /\ recved >= 2 /\ data[0] \in {TEXT, BINARY}
    /\ LenField(data) >= SHORT => recved >= 4

PkgSize(data) ==
    HeadSize(data) +
        IF LenField(data) < SHORT THEN LenField(data) ELSE data[3] + BYTE * data[2]
-----------------------------------------------------------------------------
(* tcp_alloc_cb                                                             *)

Spills == recved >= RECV_LEN /\ long_pkg_size = 0

\* The size of a block is only set for the header of a data frame.
SizeSet == Spills => HasHeader(recv_buf)

AllocSize == IF Spills THEN PkgSize(recv_buf) ELSE long_pkg_size

AllocLong ==
    IF Spills
    THEN [i \in 0 .. AllocSize - 1 |-> IF i < recved THEN recv_buf[i] ELSE NUL]
    ELSE long_pkg

\* A bug to look for: the bytes already received are not taken off.
RoomIgnoresRecved == IF recved < RECV_LEN THEN RECV_LEN ELSE AllocSize

Room == IF recved < RECV_LEN THEN RECV_LEN - recved ELSE AllocSize - recved

\* The kernel stores n bytes; tcp_read_cb ends them with a zero.
Fill(buf, n) ==
    [i \in DOMAIN buf |->
        IF recved <= i /\ i < recved + n THEN ByteAt(read + (i - recved))
        ELSE IF i = recved + n THEN NUL ELSE buf[i]]

\* The byte past recv_buf is the low byte of recved.
LowByteCleared(n) == recved < RECV_LEN /\ n = RECV_LEN - recved

Received(n) == n + recved - IF LowByteCleared(n) THEN recved % BYTE ELSE 0

Polled == pc = "poll" /\ conn # "closed" /\ reading

\* libuv has bytes, or none, for tcp_read_cb.
Fetch(n) ==
    /\ Polled /\ SizeSet
    /\ n \in 0 .. Room /\ read + n <= Sendable(is_ws_shake)
    /\ IF recved < RECV_LEN
       THEN recv_buf' = Fill(recv_buf, n) /\ UNCHANGED <<long_pkg, long_pkg_size>>
       ELSE /\ long_pkg' = Fill(AllocLong, n) /\ long_pkg_size' = AllocSize
            /\ UNCHANGED recv_buf
    /\ read' = read + n
    /\ miscounted' = (miscounted \/ (LowByteCleared(n) /\ recved % BYTE # 0))
    /\ UNCHANGED <<conn, reading, delivered>>

\* A bug to look for: the first frame is put after the handshake.
ShakeKeepsRecved(n) == Received(n)

\* What recved is when the handshake is complete.
ShakeRecved(n) == 0

\* ws_shake_hand: the reply is sent (SendPath) when the request is complete.
ReadShake(n) ==
    /\ ~is_ws_shake /\ Fetch(n)
    /\ is_ws_shake' = (Received(n) >= Shake)
    /\ recved' = IF is_ws_shake' THEN ShakeRecved(n) ELSE Received(n)
    /\ UNCHANGED pc

ReadFrames(n) ==
    /\ is_ws_shake /\ Fetch(n)
    /\ recved' = Received(n)
    /\ pc' = "parse"
    /\ UNCHANGED is_ws_shake

\* Bytes that are no data frame filled recv_buf: tcp_alloc_cb takes the size of
\* the block from a variable that read_ws_header did not set.
AllocUnset ==
    /\ Polled /\ ~SizeSet
    /\ pc' = "undefined"
    /\ UNCHANGED <<buffers, is_ws_shake, conn, reading, read, delivered, miscounted>>

\* nread < 0: the peer is gone; the buffer was allocated.
ReadEnd ==
    /\ Polled /\ SizeSet
    /\ reading' = FALSE
    /\ Close
    /\ long_pkg' = IF recved < RECV_LEN THEN long_pkg ELSE AllocLong
    /\ long_pkg_size' = IF recved < RECV_LEN THEN long_pkg_size ELSE AllocSize
    /\ UNCHANGED <<recv_buf, recved, is_ws_shake, pc, read, delivered, miscounted>>
-----------------------------------------------------------------------------
(* on_recv_ws_data: one action per turn of the loop.                        *)

Data == IF long_pkg_size > 0 THEN long_pkg ELSE recv_buf

AtClose == recved > 0 /\ Data[0] = CLOSE

HasFrame == ~AtClose /\ HasHeader(Data) /\ PkgSize(Data) <= recved

\* A bug to look for: the mask is applied from where the body is in the buffer.
UnmaskFromStart(buf, head, size) ==
    [i \in DOMAIN buf |->
        IF head <= i /\ i < size THEN Xor[buf[i]][buf[head - MaskSize + (i % MaskSize)]]
        ELSE buf[i]]

\* parser_ws_recv_data, in place; the mask is what precedes the body.
Unmask(buf, head, size) ==
    [i \in DOMAIN buf |->
        IF head <= i /\ i < size
        THEN Xor[buf[i]][buf[head - MaskSize + ((i - head) % MaskSize)]]
        ELSE buf[i]]

\* memmove of what follows a frame of size bytes to the front.
Shift(buf, size) ==
    [i \in DOMAIN buf |-> IF i < recved - size THEN buf[i + size] ELSE buf[i]]

\* The frame is cut off; a long one that is done goes back to the heap.
Cut(clear, size) ==
    /\ recved' = recved - size
    /\ IF long_pkg_size = 0
       THEN recv_buf' = Shift(clear, size) /\ UNCHANGED <<long_pkg, long_pkg_size>>
       ELSE /\ UNCHANGED recv_buf
            /\ IF recved' = 0
               THEN long_pkg' = NoPkg /\ long_pkg_size' = 0
               ELSE long_pkg' = Shift(clear, size) /\ UNCHANGED long_pkg_size

\* ok is the service's answer: FALSE closes the session, and the loop goes on.
ParseFrame(ok) ==
    LET head == HeadSize(Data)
        size == PkgSize(Data)
        clear == Unmask(Data, head, size) IN
    /\ pc = "parse" /\ HasFrame
    /\ Cut(clear, size)
    /\ delivered' = Append(delivered, [i \in 1 .. size - head |-> clear[head + i - 1]])
    /\ IF ok THEN UNCHANGED conn ELSE Close
    /\ UNCHANGED <<is_ws_shake, reading, pc, read, miscounted>>

\* A close frame stays in the buffer: nothing after it is looked at.
ParseClose ==
    /\ pc = "parse" /\ AtClose
    /\ Close
    /\ pc' = "poll"
    /\ UNCHANGED <<buffers, is_ws_shake, reading, read, delivered, miscounted>>

ParseEnd ==
    /\ pc = "parse" /\ ~HasFrame /\ ~AtClose
    /\ pc' = "poll"
    /\ UNCHANGED <<buffers, is_ws_shake, conn, reading, read, delivered, miscounted>>

\* shutdown_cb, then close_cb: the session is destroyed.
Closed ==
    /\ pc = "poll" /\ conn = "closing"
    /\ conn' = "closed"
    /\ reading' = FALSE
    /\ UNCHANGED <<buffers, is_ws_shake, pc, read, delivered, miscounted>>

Gone == (conn = "closed" \/ pc = "undefined") /\ UNCHANGED vars

Parse == (\E ok \in BOOLEAN : ParseFrame(ok)) \/ ParseClose \/ ParseEnd

MaxRead == BYTE * BYTE + MaskSize + 4

Receive(n) == ReadShake(n) \/ ReadFrames(n)

Next ==
    \/ \E n \in 0 .. MaxRead : Receive(n)
    \/ AllocUnset \/ ReadEnd \/ Parse \/ Closed \/ Gone

\* The loop of on_recv_ws_data runs on, and a handle polled again and again while
\* the peer's bytes are on their way is at last given some.
Fairness == WF_vars(Parse) /\ SF_vars(\E n \in 1 .. MaxRead : Receive(n))

Spec == Init /\ [][Next]_vars
FairSpec == Spec /\ Fairness
-----------------------------------------------------------------------------
TypeOK ==
    /\ recv_buf \in [0 .. RECV_LEN - 1 -> Byte]
    /\ long_pkg_size \in Nat /\ long_pkg \in [0 .. long_pkg_size - 1 -> Byte]
    /\ recved \in 0 .. IF long_pkg_size = 0 THEN RECV_LEN ELSE long_pkg_size
    /\ is_ws_shake \in BOOLEAN
    /\ conn \in {"open", "closing", "closed"}
    /\ reading \in BOOLEAN
    /\ pc \in {"poll", "parse", "undefined"}
    /\ read \in 0 .. Sendable(TRUE)
    /\ delivered \in Seq(Seq(Byte))
    /\ miscounted \in BOOLEAN

\* The frames before the first close frame.
BeforeClose ==
    {i \in 1 .. Len(Frames) : \A j \in 1 .. i : Frames[j].op # CLOSE}

Channel == INSTANCE PacketChannel
    WITH Messages <- [i \in BeforeClose |-> Frames[i].body],
         received <- delivered, lost <- miscounted

\* However the kernel cuts the handshake and the frames into reads, the services
\* are given the bodies the peer masked, whole, in order and unmasked once, and
\* nothing from a close frame on, as long as recved has not been overwritten
\* (netbus.cpp:95-144, 153-187, 272-286; ws_protocol.cpp:116-165).
ImplementsChannel == Channel!Spec

\* Every frame is reached: a peer that sends a close frame is closed, one that
\* does not has all its frames delivered, unless a service or the network closes
\* the session before, or recved is overwritten.
Settled ==
    <>(\/ conn # "open" \/ miscounted
       \/ BeforeClose = 1 .. Len(Frames) /\ Len(delivered) = Len(Frames))
=============================================================================
