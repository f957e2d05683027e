--------------------------- MODULE WsStreamProofs ---------------------------
(***************************************************************************)
(* The receive path of a WebSocket session hands over the bodies the peer  *)
(* masked, for every sequence of frames, buffer size and way the kernel    *)
(* cuts the handshake and the frames into reads, until a read clears the   *)
(* low byte of recved.  The sizes are right even then: a heap block has    *)
(* the size the header at its front says, so the frame it was made for is  *)
(* the only one in it.                                                     *)
(***************************************************************************)
EXTENDS WsStream, SequenceTheorems, WellFoundedInduction, TLAPS

\* Until the handshake is complete recved counts its bytes, and nothing else
\* has been received.
Shaking ==
    /\ recved = read /\ read < Shake
    /\ long_pkg_size = 0 /\ delivered = <<>> /\ ~miscounted /\ pc = "poll"

\* The loop only returns to the event loop with an incomplete frame.
NoneComplete == pc = "poll" /\ HasHeader(Data) => PkgSize(Data) > recved

\* A heap block was sized by the header that is still at its front.
LongSized ==
    long_pkg_size > 0 =>
        recved >= RECV_LEN /\ HasHeader(long_pkg) /\ PkgSize(long_pkg) = long_pkg_size

\* The frame the loop stands at.
At == Len(delivered) + 1

\* The first k bytes of data are those the peer sends from p on.
Holds(data, k, p) == \A i \in 0 .. k - 1 : data[i] = Wire[p + i + 1]

\* The data is what the peer sent from the start of that frame on.
Contiguous ==
    /\ At <= Len(Frames) + 1
    /\ recved = read - Shake - Start[At]
    /\ Holds(Data, recved, Start[At])

\* The bodies of the frames before it have been handed over.
HandedOver ==
    \A k \in 1 .. Len(delivered) :
        Frames[k].op # CLOSE /\ delivered[k] = Frames[k].body

Framed == ~miscounted => Contiguous /\ HandedOver

Inv ==
    /\ TypeOK /\ LongSized
    /\ IF is_ws_shake THEN NoneComplete /\ Framed ELSE Shaking
-----------------------------------------------------------------------------
LEMMA ConstantFacts ==
    /\ BYTE \in Nat /\ BYTE >= 2 /\ BYTE \div 2 \in Nat /\ 2 * (BYTE \div 2) <= BYTE
    /\ SHORT \in Nat /\ SHORT < BYTE \div 2 /\ NUL \in Byte
    /\ Shake \in Nat /\ Shake >= 1 /\ RECV_LEN \in Nat /\ Shake < RECV_LEN
    /\ TEXT \in Byte /\ BINARY \in Byte /\ CLOSE \in Byte
    /\ CLOSE # TEXT /\ CLOSE # BINARY
<1>1. /\ BYTE \in Nat /\ SHORT \in 0 .. BYTE \div 2 - 1
      /\ RECV_LEN \in Nat /\ Shake \in 1 .. RECV_LEN - 1
      /\ TEXT \in Byte /\ BINARY \in Byte /\ CLOSE \in Byte
      /\ CLOSE # TEXT /\ CLOSE # BINARY
  BY WsAssumption
<1>2. BYTE \div 2 \in Nat /\ 2 * (BYTE \div 2) <= BYTE
  BY <1>1
<1> DEFINE h == BYTE \div 2
<1>3. h \in Nat /\ 2 * h <= BYTE /\ SHORT \in 0 .. h - 1
  BY <1>1, <1>2
<1> HIDE DEF h
<1>4. BYTE >= 2 /\ SHORT \in Nat /\ SHORT < h
  BY <1>1, <1>3
<1>5. NUL \in Byte
  BY <1>1, <1>4 DEF NUL, Byte
<1> QED
  BY <1>1, <1>3, <1>4, <1>5 DEF h

LEMMA SizeFacts ==
    Shake \in Nat /\ Shake >= 1 /\ RECV_LEN \in Nat /\ Shake < RECV_LEN
BY ConstantFacts

LEMMA WireFacts ==
    /\ Len(Frames) \in Nat /\ Len(Wire) \in Nat
    /\ \A i \in 1 .. Len(Wire) : Wire[i] \in Byte
    /\ Start[1] = 0 /\ Start[Len(Frames) + 1] = Len(Wire)
    /\ \A k \in 1 .. Len(Frames) + 1 : Start[k] \in Nat /\ Start[k] <= Len(Wire)
<1>1. Len(Frames) \in Nat
  BY WsAssumption
<1>2. Wire \in Seq(Byte)
  BY WireAssumption
<1>3. Len(Wire) \in Nat /\ \A i \in 1 .. Len(Wire) : Wire[i] \in Byte
  BY <1>2
<1>4. Start \in [1 .. Len(Frames) + 1 -> 0 .. Len(Wire)]
      /\ Start[1] = 0 /\ Start[Len(Frames) + 1] = Len(Wire)
  BY WireAssumption
<1> QED
  BY <1>1, <1>3, <1>4

LEMMA ByteAtType ==
    \A p \in 0 .. Shake + Len(Wire) - 1 : ByteAt(p) \in Byte
BY ConstantFacts, WireFacts DEF ByteAt

LEMMA SendableFacts ==
    /\ Sendable(TRUE) = Shake + Len(Wire)
    /\ Sendable(FALSE) = Shake
    /\ \A r \in Nat : r <= Shake + Len(Wire) <=> r \in 0 .. Sendable(TRUE)
<1>1. Sendable(TRUE) = Shake + Len(Wire) /\ Sendable(FALSE) = Shake
  BY SizeFacts DEF Sendable
<1>2. Shake + Len(Wire) \in Nat
  BY SizeFacts, WireFacts
<1>3. \A r \in Nat : r <= Shake + Len(Wire) <=> r \in 0 .. Shake + Len(Wire)
  BY <1>2
<1> HIDE DEF Sendable
<1> QED
  BY <1>1, <1>3

LEMMA ReadType == TypeOK => read \in Nat /\ read <= Shake + Len(Wire)
<1> SUFFICES ASSUME TypeOK PROVE read \in Nat /\ read <= Shake + Len(Wire)
  OBVIOUS
<1>1. read \in 0 .. Sendable(TRUE)
  BY DEF TypeOK
<1>2. read \in 0 .. Shake + Len(Wire)
  BY <1>1, SendableFacts
<1> QED
  BY <1>2, SizeFacts, WireFacts
-----------------------------------------------------------------------------
(* Headers.                                                                 *)

LEMMA LengthField ==
    ASSUME NEW b \in Byte
    PROVE  b % (BYTE \div 2) \in Nat /\ b % (BYTE \div 2) < BYTE \div 2
<1> DEFINE h == BYTE \div 2
<1>1. h \in Nat /\ h > 0 /\ b \in Nat
  BY ConstantFacts DEF Byte
<1> HIDE DEF h
<1>2. b % h \in Nat /\ b % h < h
  BY <1>1
<1> QED
  BY <1>2 DEF h

LEMMA LongLength ==
    ASSUME NEW a \in Byte, NEW b \in Byte
    PROVE  a + BYTE * b \in Nat
<1>1. a \in Nat /\ b \in Nat /\ BYTE \in Nat
  BY ConstantFacts DEF Byte
<1>2. BYTE * b \in Nat
  BY <1>1
<1> QED
  BY <1>1, <1>2

\* What read_ws_header finds in data that begins with a header.
LEMMA HeaderFacts ==
    ASSUME recved \in Nat, NEW m \in Nat, recved <= m,
           NEW data \in [0 .. m - 1 -> Byte], HasHeader(data)
    PROVE  /\ recved >= 2 /\ (LenField(data) >= SHORT => recved >= 4)
           /\ LenField(data) \in Nat
           /\ HeadSize(data) = IF LenField(data) < SHORT THEN 6 ELSE 8
           /\ HeadSize(data) \in Nat /\ PkgSize(data) \in Nat
           /\ PkgSize(data) >= HeadSize(data)
           /\ data[0] # CLOSE
<1>1. /\ recved >= 2 /\ data[0] \in {TEXT, BINARY}
      /\ LenField(data) >= SHORT => recved >= 4
  BY DEF HasHeader
<1>2. data[1] \in Byte
  BY <1>1
<1>3. LenField(data) \in Nat
  BY <1>2, LengthField DEF LenField
<1>4. HeadSize(data) = IF LenField(data) < SHORT THEN 6 ELSE 8
  BY DEF HeadSize, MaskSize
<1>5. CASE LenField(data) < SHORT
  BY <1>1, <1>3, <1>4, <1>5, ConstantFacts DEF PkgSize
<1>6. CASE ~(LenField(data) < SHORT)
  <2>1. recved >= 4
    BY <1>1, <1>3, <1>6, ConstantFacts
  <2>2. data[2] \in Byte /\ data[3] \in Byte
    BY <2>1
  <2>3. data[3] + BYTE * data[2] \in Nat
    BY <2>2, LongLength
  <2>4. PkgSize(data) = 8 + (data[3] + BYTE * data[2])
    BY <1>4, <1>6 DEF PkgSize
  <2> HIDE DEF PkgSize
  <2> QED
    BY <1>1, <1>3, <1>4, <1>6, <2>3, <2>4, ConstantFacts
<1> QED
  BY <1>5, <1>6

\* Bytes that come behind a header do not change what it says.
LEMMA HeaderKept ==
    ASSUME recved \in Nat, NEW m \in Nat, recved <= m,
           NEW data \in [0 .. m - 1 -> Byte], HasHeader(data),
           NEW new, \A i \in 0 .. recved - 1 : new[i] = data[i]
    PROVE  /\ new[0] \in {TEXT, BINARY}
           /\ LenField(new) = LenField(data)
           /\ PkgSize(new) = PkgSize(data)
<1>1. /\ recved >= 2 /\ (LenField(data) >= SHORT => recved >= 4)
      /\ LenField(data) \in Nat /\ data[0] \in {TEXT, BINARY}
  BY HeaderFacts DEF HasHeader
<1>2. new[0] = data[0] /\ new[1] = data[1]
  BY <1>1
<1>3. LenField(new) = LenField(data)
  BY <1>2 DEF LenField
<1>4. ~(LenField(data) < SHORT) => new[2] = data[2] /\ new[3] = data[3]
  BY <1>1, ConstantFacts
<1>5. HeadSize(new) = HeadSize(data)
  BY <1>3 DEF HeadSize
<1>6. PkgSize(new) = PkgSize(data)
  BY <1>3, <1>4, <1>5 DEF PkgSize
<1> QED
  BY <1>1, <1>2, <1>3, <1>6
-----------------------------------------------------------------------------
(* Reads.                                                                   *)

\* The buffer the data is in holds it.
LEMMA DataType ==
    ASSUME TypeOK
    PROVE  /\ recved \in Nat /\ long_pkg_size \in Nat
           /\ \E m \in Nat : recved <= m /\ Data \in [0 .. m - 1 -> Byte]
<1>1. CASE long_pkg_size = 0
  <2>1. recved \in Nat /\ recved <= RECV_LEN /\ Data = recv_buf
    BY <1>1, ConstantFacts DEF TypeOK, Data
  <2>2. recv_buf \in [0 .. RECV_LEN - 1 -> Byte]
    BY DEF TypeOK
  <2> QED
    BY <1>1, <2>1, <2>2, ConstantFacts
<1>2. CASE long_pkg_size # 0
  <2>1. /\ recved \in Nat /\ recved <= long_pkg_size /\ Data = long_pkg
        /\ long_pkg_size \in Nat
    BY <1>2 DEF TypeOK, Data
  <2>2. long_pkg \in [0 .. long_pkg_size - 1 -> Byte]
    BY DEF TypeOK
  <2> QED
    BY <2>1, <2>2
<1> QED
  BY <1>1, <1>2

\* A read leaves the data in front of it alone and stores the next n bytes.
LEMMA FillFacts ==
    ASSUME NEW m \in Nat, NEW buf \in [0 .. m - 1 -> Byte], NEW n \in Nat,
           recved \in Nat, recved + n <= m, read \in Nat,
           read + n <= Shake + Len(Wire)
    PROVE  /\ Fill(buf, n) \in [0 .. m - 1 -> Byte]
           /\ \A i \in 0 .. recved - 1 : Fill(buf, n)[i] = buf[i]
           /\ \A i \in recved .. recved + n - 1 :
                  Fill(buf, n)[i] = ByteAt(read + (i - recved))
           /\ \A p \in Nat : recved = read - Shake - p /\ Holds(buf, recved, p)
                  => Holds(Fill(buf, n), recved + n, p)
<1> DEFINE new == [i \in 0 .. m - 1 |->
                      IF recved <= i /\ i < recved + n THEN ByteAt(read + (i - recved))
                      ELSE IF i = recved + n THEN NUL ELSE buf[i]]
<1>1. Fill(buf, n) = new
  BY DEF Fill
<1>2. \A i \in 0 .. m - 1 : new[i] \in Byte
  <2> TAKE i \in 0 .. m - 1
  <2>1. CASE recved <= i /\ i < recved + n
    <3>1. read + (i - recved) \in 0 .. Shake + Len(Wire) - 1
      BY <2>1, ConstantFacts, WireFacts
    <3> QED
      BY <2>1, <3>1, ByteAtType
  <2>2. CASE ~(recved <= i /\ i < recved + n)
    BY <2>2, ConstantFacts
  <2> QED
    BY <2>1, <2>2
<1>3. /\ \A i \in 0 .. recved - 1 : new[i] = buf[i]
      /\ \A i \in recved .. recved + n - 1 : new[i] = ByteAt(read + (i - recved))
  OBVIOUS
<1>4. new \in [0 .. m - 1 -> Byte]
  BY <1>2
<1> HIDE DEF new
<1>5. ASSUME NEW p \in Nat, recved = read - Shake - p, Holds(buf, recved, p)
      PROVE  Holds(new, recved + n, p)
  <2>1. \A i \in 0 .. recved - 1 : new[i] = Wire[p + i + 1]
    BY <1>3, <1>5 DEF Holds
  <2>2. \A i \in recved .. recved + n - 1 : new[i] = Wire[p + i + 1]
    <3> TAKE i \in recved .. recved + n - 1
    <3>1. read + (i - recved) = Shake + p + i /\ Shake + p + i - Shake + 1 = p + i + 1
      BY <1>5, SizeFacts
    <3>2. ByteAt(Shake + p + i) = Wire[Shake + p + i - Shake + 1]
      BY SizeFacts DEF ByteAt
    <3> QED
      BY <1>3, <3>1, <3>2
  <2>3. \A i \in 0 .. recved + n - 1 : new[i] = Wire[p + i + 1]
    BY <2>1, <2>2
  <2> QED
    BY <2>3 DEF Holds
<1> QED
  BY <1>1, <1>3, <1>4, <1>5

\* What tcp_alloc_cb leaves behind, in a state of the event loop: a block with
\* room, sized by the header at its front, which still holds the same data.
LEMMA AllocFacts ==
    ASSUME Inv, Polled, SizeSet, is_ws_shake, recved >= RECV_LEN
    PROVE  /\ recved \in Nat /\ AllocSize \in Nat /\ AllocSize > recved
           /\ AllocLong \in [0 .. AllocSize - 1 -> Byte]
           /\ HasHeader(Data) /\ PkgSize(Data) = AllocSize
           /\ \A i \in 0 .. recved - 1 : AllocLong[i] = Data[i]
<1>0. TypeOK /\ LongSized /\ NoneComplete /\ pc = "poll"
  BY DEF Inv, Polled
<1>1. CASE long_pkg_size = 0
  <2>1. recved = RECV_LEN /\ Data = recv_buf /\ recv_buf \in [0 .. RECV_LEN - 1 -> Byte]
    BY <1>0, <1>1, ConstantFacts DEF TypeOK, Data
  <2>2. HasHeader(recv_buf) /\ AllocSize = PkgSize(recv_buf)
    BY <1>1, <2>1, ConstantFacts DEF SizeSet, Spills, AllocSize
  <2>3. AllocSize \in Nat /\ AllocSize > recved
    <3>1. PkgSize(recv_buf) \in Nat
      BY <2>1, <2>2, ConstantFacts, HeaderFacts
    <3> QED
      BY <1>0, <2>1, <2>2, <3>1 DEF NoneComplete
  <2>4. AllocLong = [i \in 0 .. AllocSize - 1 |-> IF i < recved THEN recv_buf[i] ELSE NUL]
    BY <1>1, <2>1, ConstantFacts DEF AllocLong, Spills
  <2>5. /\ AllocLong \in [0 .. AllocSize - 1 -> Byte]
        /\ \A i \in 0 .. recved - 1 : AllocLong[i] = recv_buf[i]
    BY <2>1, <2>3, <2>4, ConstantFacts
  <2> QED
    BY <2>1, <2>2, <2>3, <2>5, ConstantFacts
<1>2. CASE long_pkg_size # 0
  <2>1. /\ Data = long_pkg /\ AllocLong = long_pkg /\ AllocSize = long_pkg_size
        /\ long_pkg \in [0 .. long_pkg_size - 1 -> Byte] /\ long_pkg_size \in Nat
        /\ recved \in Nat
    BY <1>0, <1>2 DEF TypeOK, Data, AllocLong, AllocSize, Spills
  <2>2. HasHeader(Data) /\ PkgSize(Data) = AllocSize
    BY <1>0, <1>2, <2>1 DEF LongSized
  <2>3. AllocSize > recved
    BY <1>0, <2>2 DEF NoneComplete
  <2> QED
    BY <2>1, <2>2, <2>3
<1> QED
  BY <1>1, <1>2

LEMMA LowByteFact ==
    recved \in Nat => recved % BYTE \in Nat /\ recved % BYTE <= recved
BY ConstantFacts

\* The bytes of a read are bytes the peer may have sent.
LEMMA FetchRead ==
    ASSUME TypeOK, NEW n \in Nat, Fetch(n)
    PROVE  /\ read \in Nat /\ read' = read + n /\ read' <= Shake + Len(Wire)
           /\ read' \in 0 .. Sendable(TRUE)
           /\ ~is_ws_shake => read' <= Shake
           /\ UNCHANGED <<conn, reading, delivered>>
<1>1. read \in Nat /\ is_ws_shake \in BOOLEAN
  BY ReadType DEF TypeOK
<1>2. /\ read' = read + n /\ read + n <= Sendable(is_ws_shake)
      /\ UNCHANGED <<conn, reading, delivered>>
  BY DEF Fetch
<1>3. ASSUME is_ws_shake PROVE read' <= Shake + Len(Wire)
  <2>1. is_ws_shake = TRUE
    BY <1>1, <1>3
  <2>2. Sendable(is_ws_shake) = Shake + Len(Wire)
    BY <2>1, SendableFacts
  <2> QED
    BY <1>1, <1>2, <1>3, <2>2
<1>4. ASSUME ~is_ws_shake PROVE read' <= Shake /\ read' <= Shake + Len(Wire)
  <2>1. is_ws_shake = FALSE
    BY <1>1, <1>4
  <2>2. Sendable(is_ws_shake) = Shake
    BY <2>1, SendableFacts
  <2> QED
    BY <1>1, <1>2, <2>2, SizeFacts, WireFacts
<1>5. read' \in Nat /\ read' <= Shake + Len(Wire) => read' \in 0 .. Sendable(TRUE)
  BY SendableFacts
<1>6. read' \in Nat /\ read' = read + n /\ read' <= Shake + Len(Wire)
  BY <1>1, <1>2, <1>3, <1>4
<1> QED
  BY <1>1, <1>2, <1>4, <1>5, <1>6

\* A read into recv_buf.
LEMMA ShortFetch ==
    ASSUME TypeOK, LongSized, NEW n \in Nat, Fetch(n), recved < RECV_LEN
    PROVE  /\ recved \in Nat /\ recved + n <= RECV_LEN
           /\ long_pkg_size = 0 /\ UNCHANGED <<long_pkg, long_pkg_size>>
           /\ recv_buf' = Fill(recv_buf, n)
           /\ recv_buf' \in [0 .. RECV_LEN - 1 -> Byte]
           /\ Received(n) \in 0 .. RECV_LEN /\ miscounted' \in BOOLEAN
           /\ ~miscounted' => ~miscounted /\ Received(n) = recved + n
           /\ recved + n < RECV_LEN => miscounted' = miscounted /\ Received(n) = recved + n
<1>1. /\ recved \in Nat /\ recv_buf \in [0 .. RECV_LEN - 1 -> Byte]
      /\ miscounted \in BOOLEAN /\ long_pkg_size \in Nat
  BY ConstantFacts DEF TypeOK
<1>2. long_pkg_size = 0
  BY <1>1, ConstantFacts DEF LongSized
<1>3. /\ n <= RECV_LEN - recved
      /\ recv_buf' = Fill(recv_buf, n) /\ UNCHANGED <<long_pkg, long_pkg_size>>
  BY DEF Fetch, Room
<1>4. recved + n <= RECV_LEN
  BY <1>1, <1>3, ConstantFacts
<1>5. recv_buf' \in [0 .. RECV_LEN - 1 -> Byte]
  BY <1>1, <1>3, <1>4, FetchRead, FillFacts, ConstantFacts
<1> DEFINE low == recved % BYTE
<1>6. low \in Nat /\ low <= recved
  BY <1>1, LowByteFact
<1>7. /\ Received(n) = n + recved - IF LowByteCleared(n) THEN low ELSE 0
      /\ miscounted' = (miscounted \/ (LowByteCleared(n) /\ low # 0))
      /\ LowByteCleared(n) <=> n = RECV_LEN - recved
  BY DEF Received, Fetch, LowByteCleared
<1> HIDE DEF low
<1>8. miscounted' \in BOOLEAN
  BY <1>7
<1>9. CASE LowByteCleared(n)
  <2>1. Received(n) = n + recved - low /\ recved + n = RECV_LEN
    BY <1>1, <1>7, <1>9, ConstantFacts
  <2>2. ~miscounted' => ~miscounted /\ low = 0
    BY <1>7, <1>9
  <2> QED
    BY <1>1, <1>2, <1>3, <1>4, <1>5, <1>6, <1>8, <2>1, <2>2, ConstantFacts
<1>10. CASE ~LowByteCleared(n)
  <2>1. Received(n) = recved + n /\ miscounted' = miscounted
    BY <1>1, <1>7, <1>10
  <2> QED
    BY <1>1, <1>2, <1>3, <1>4, <1>5, <1>8, <2>1, ConstantFacts
<1> QED
  BY <1>9, <1>10

\* A read into a heap block.
LEMMA LongFetch ==
    ASSUME Inv, is_ws_shake, NEW n \in Nat, Fetch(n), recved >= RECV_LEN
    PROVE  /\ recved \in Nat /\ Received(n) = recved + n
           /\ long_pkg_size' \in Nat /\ recved + n <= long_pkg_size' /\ long_pkg_size' > 0
           /\ UNCHANGED <<recv_buf, miscounted>>
           /\ long_pkg' = Fill(AllocLong, n)
           /\ long_pkg' \in [0 .. long_pkg_size' - 1 -> Byte]
           /\ long_pkg'[0] \in {TEXT, BINARY} /\ PkgSize(long_pkg') = long_pkg_size'
           /\ LenField(long_pkg') >= SHORT => recved >= 4
<1>1. TypeOK /\ Polled /\ SizeSet /\ miscounted \in BOOLEAN
  BY DEF Inv, TypeOK, Fetch
<1>2. /\ recved \in Nat /\ AllocSize \in Nat /\ AllocSize > recved
      /\ AllocLong \in [0 .. AllocSize - 1 -> Byte]
      /\ HasHeader(Data) /\ PkgSize(Data) = AllocSize
      /\ \A i \in 0 .. recved - 1 : AllocLong[i] = Data[i]
  BY <1>1, AllocFacts
<1>3. ~(recved < RECV_LEN)
  BY <1>2, ConstantFacts
<1>4. /\ n <= AllocSize - recved
      /\ long_pkg' = Fill(AllocLong, n) /\ long_pkg_size' = AllocSize
      /\ UNCHANGED recv_buf /\ miscounted' = miscounted /\ Received(n) = recved + n
  BY <1>1, <1>2, <1>3 DEF Fetch, Room, LowByteCleared, Received
<1>5. recved + n <= AllocSize
  BY <1>2, <1>4
<1> DEFINE new == Fill(AllocLong, n)
<1>6. /\ new \in [0 .. AllocSize - 1 -> Byte]
      /\ \A i \in 0 .. recved - 1 : new[i] = AllocLong[i]
  <2>1. read \in Nat /\ read + n <= Shake + Len(Wire)
    BY <1>1, FetchRead
  <2> QED
    BY <1>2, <1>5, <2>1, FillFacts
<1> HIDE DEF new
<1>7. /\ new[0] \in {TEXT, BINARY} /\ PkgSize(new) = AllocSize
      /\ LenField(new) >= SHORT => recved >= 4
  <2>1. \A i \in 0 .. recved - 1 : new[i] = Data[i]
    BY <1>2, <1>6
  <2>2. PICK m \in Nat : recved <= m /\ Data \in [0 .. m - 1 -> Byte]
    BY <1>1, DataType
  <2>3. new[0] \in {TEXT, BINARY} /\ LenField(new) = LenField(Data) /\ PkgSize(new) = AllocSize
    BY <1>2, <2>1, <2>2, HeaderKept
  <2>4. LenField(Data) >= SHORT => recved >= 4
    BY <1>2, <2>2, HeaderFacts
  <2> QED
    BY <2>3, <2>4
<1>8. long_pkg' = new
  BY <1>4 DEF new
<1> QED
  BY <1>2, <1>4, <1>5, <1>6, <1>7, <1>8
-----------------------------------------------------------------------------
LEMMA InitInv == Init => Inv
<1> SUFFICES ASSUME Init PROVE Inv
  OBVIOUS
<1> USE ConstantFacts, WireFacts DEF Init
<1>1. TypeOK
  <2>1. recv_buf \in [0 .. RECV_LEN - 1 -> Byte]
    OBVIOUS
  <2>2. long_pkg_size \in Nat /\ long_pkg \in [0 .. long_pkg_size - 1 -> Byte]
    BY DEF NoPkg
  <2>3. recved \in 0 .. IF long_pkg_size = 0 THEN RECV_LEN ELSE long_pkg_size
    OBVIOUS
  <2>4. read \in 0 .. Sendable(TRUE)
    <3>1. read \in Nat /\ read <= Shake + Len(Wire)
      BY SizeFacts
    <3> QED
      BY <3>1, SendableFacts
  <2>5. delivered \in Seq(Seq(Byte))
    OBVIOUS
  <2>6. /\ is_ws_shake \in BOOLEAN /\ conn \in {"open", "closing", "closed"}
        /\ reading \in BOOLEAN /\ pc \in {"poll", "parse", "undefined"}
        /\ miscounted \in BOOLEAN
    OBVIOUS
  <2> QED
    BY <2>1, <2>2, <2>3, <2>4, <2>5, <2>6 DEF TypeOK
<1>2. LongSized /\ Shaking /\ ~is_ws_shake
  BY DEF LongSized, Shaking
<1> QED
  BY <1>1, <1>2 DEF Inv

LEMMA ReadShakeInv ==
    ASSUME Inv, NEW n \in Nat, ReadShake(n) PROVE Inv'
<1>1. /\ TypeOK /\ LongSized /\ Shaking /\ ~is_ws_shake /\ Fetch(n)
      /\ is_ws_shake' = (Received(n) >= Shake)
      /\ recved' = IF is_ws_shake' THEN 0 ELSE Received(n)
      /\ pc' = pc
  BY DEF Inv, ReadShake, ShakeRecved
<1>2. /\ read \in Nat /\ read' = read + n /\ read' <= Shake
      /\ read' \in 0 .. Sendable(TRUE)
      /\ UNCHANGED <<conn, reading, delivered>>
  BY <1>1, FetchRead
<1>3. recved = read /\ recved < Shake /\ pc = "poll" /\ delivered = <<>> /\ ~miscounted
  BY <1>1 DEF Shaking
<1>4. recved < RECV_LEN /\ recved + n < RECV_LEN
  BY <1>2, <1>3, ConstantFacts
<1>5. /\ long_pkg_size = 0 /\ UNCHANGED <<long_pkg, long_pkg_size>>
      /\ recv_buf' \in [0 .. RECV_LEN - 1 -> Byte]
      /\ miscounted' = miscounted /\ Received(n) = read'
  BY <1>1, <1>2, <1>3, <1>4, ShortFetch
<1>6. recved' \in Nat /\ recved' <= RECV_LEN /\ is_ws_shake' \in BOOLEAN
  BY <1>1, <1>2, <1>4, <1>5, ConstantFacts
<1>7. TypeOK'
  <2>2. recved' \in 0 .. IF long_pkg_size' = 0 THEN RECV_LEN ELSE long_pkg_size'
    BY <1>5, <1>6, ConstantFacts
  <2> QED
    BY <1>1, <1>2, <1>5, <1>6, <2>2 DEF TypeOK
<1>8. LongSized'
  BY <1>5 DEF LongSized
<1>9. CASE is_ws_shake'
  <2>1. recved' = 0 /\ read' = Shake
    <3>1. recved' = 0 /\ read' >= Shake
      BY <1>1, <1>5, <1>9
    <3> QED
      BY <1>2, <3>1, SizeFacts
  <2>2. NoneComplete'
    BY <2>1 DEF NoneComplete, HasHeader
  <2>3. Contiguous' /\ HandedOver'
    <3>1. delivered' = <<>> /\ At' = 1
      BY <1>2, <1>3 DEF At
    <3> QED
      BY <2>1, <3>1, SizeFacts, WireFacts DEF Contiguous, HandedOver, Holds
  <2> QED
    BY <1>7, <1>8, <1>9, <2>2, <2>3 DEF Inv, Framed
<1>10. CASE ~is_ws_shake'
  <2>1. recved' = read' /\ read' < Shake
    <3>1. recved' = read' /\ ~(read' >= Shake)
      BY <1>1, <1>5, <1>10
    <3> QED
      BY <1>2, <3>1, SizeFacts
  <2>2. Shaking'
    BY <1>1, <1>2, <1>3, <1>5, <2>1 DEF Shaking
  <2> QED
    BY <1>7, <1>8, <1>10, <2>2 DEF Inv
<1> QED
  BY <1>9, <1>10

LEMMA ReadFramesInv ==
    ASSUME Inv, NEW n \in Nat, ReadFrames(n) PROVE Inv'
<1>1. /\ TypeOK /\ LongSized /\ Framed /\ is_ws_shake /\ Fetch(n)
      /\ recved' = Received(n) /\ pc' = "parse" /\ is_ws_shake' = is_ws_shake
      /\ miscounted \in BOOLEAN
  BY DEF Inv, ReadFrames, TypeOK
<1>2. /\ read \in Nat /\ read' = read + n /\ read + n <= Shake + Len(Wire)
      /\ UNCHANGED <<conn, reading, delivered>>
  BY <1>1, FetchRead
<1>3. read' \in 0 .. Sendable(TRUE)
  BY <1>1, FetchRead
<1>4. NoneComplete'
  BY <1>1 DEF NoneComplete
<1>5. ASSUME ~miscounted, NEW m \in Nat, NEW buf \in [0 .. m - 1 -> Byte],
             recved \in Nat, recved + n <= m, recved' = recved + n,
             \A i \in 0 .. recved - 1 : buf[i] = Data[i],
             Data' = Fill(buf, n)
      PROVE  Contiguous' /\ HandedOver'
  <2>1. Contiguous /\ HandedOver /\ At' = At
    BY <1>1, <1>2, <1>5 DEF Framed, At
  <2>2. /\ At <= Len(Frames) + 1 /\ recved = read - Shake - Start[At]
        /\ Holds(Data, recved, Start[At])
    BY <2>1 DEF Contiguous
  <2>3. Start[At] \in Nat
    <3>1. At \in Nat /\ At >= 1
      BY <1>1 DEF At, TypeOK
    <3> QED
      BY <2>2, <3>1, WireFacts
  <2>4. Holds(buf, recved, Start[At])
    BY <1>5, <2>2 DEF Holds
  <2>5. Holds(Fill(buf, n), recved + n, Start[At])
    <3>1. recved + n <= m /\ recved \in Nat
      BY <1>5
    <3>2. read \in Nat /\ read + n <= Shake + Len(Wire)
      BY <1>2
    <3> QED
      BY <2>2, <2>3, <2>4, <3>1, <3>2, FillFacts
  <2>6. Contiguous'
    <3>1. Holds(Data', recved', Start[At])
      BY <1>5, <2>5
    <3>2. recved' = read' - Shake - Start[At]
      BY <1>2, <1>5, <2>2, <2>3, SizeFacts
    <3> QED
      BY <2>1, <2>2, <3>1, <3>2 DEF Contiguous, Holds
  <2>7. HandedOver'
    BY <1>2, <2>1 DEF HandedOver
  <2> QED
    BY <2>6, <2>7
<1>6. CASE recved < RECV_LEN
  <2>1. /\ recved \in Nat /\ recved + n <= RECV_LEN
        /\ long_pkg_size = 0 /\ UNCHANGED <<long_pkg, long_pkg_size>>
        /\ recv_buf' = Fill(recv_buf, n)
        /\ recv_buf' \in [0 .. RECV_LEN - 1 -> Byte]
        /\ recved' \in 0 .. RECV_LEN /\ miscounted' \in BOOLEAN
        /\ ~miscounted' => ~miscounted /\ recved' = recved + n
    BY <1>1, <1>6, ShortFetch
  <2>2. TypeOK'
    BY <1>1, <1>2, <1>3, <2>1 DEF TypeOK
  <2>3. LongSized'
    BY <2>1 DEF LongSized
  <2>4. ASSUME ~miscounted' PROVE Contiguous' /\ HandedOver'
    <3>1. ~miscounted /\ recved' = recved + n
      BY <2>1, <2>4
    <3>2. recv_buf \in [0 .. RECV_LEN - 1 -> Byte]
      BY <1>1 DEF TypeOK
    <3>3. Data = recv_buf /\ Data' = Fill(recv_buf, n)
      BY <2>1 DEF Data
    <3> QED
      BY <1>5, <2>1, <3>1, <3>2, <3>3, ConstantFacts
  <2> QED
    BY <1>1, <1>4, <2>2, <2>3, <2>4 DEF Inv, Framed
<1>7. CASE ~(recved < RECV_LEN)
  <2>0. recved >= RECV_LEN
    BY <1>1, <1>7, ConstantFacts DEF TypeOK
  <2>1. /\ recved \in Nat /\ recved' = recved + n
        /\ long_pkg_size' \in Nat /\ recved + n <= long_pkg_size' /\ long_pkg_size' > 0
        /\ UNCHANGED <<recv_buf, miscounted>>
        /\ long_pkg' = Fill(AllocLong, n)
        /\ long_pkg' \in [0 .. long_pkg_size' - 1 -> Byte]
        /\ long_pkg'[0] \in {TEXT, BINARY} /\ PkgSize(long_pkg') = long_pkg_size'
        /\ LenField(long_pkg') >= SHORT => recved >= 4
    BY <1>1, <2>0, LongFetch
  <2>2. TypeOK'
    <3>1. recved' \in 0 .. IF long_pkg_size' = 0 THEN RECV_LEN ELSE long_pkg_size'
      BY <2>1
    <3> QED
      BY <1>1, <1>2, <1>3, <2>1, <3>1 DEF TypeOK
  <2>3. LongSized'
    <3>1. recved' >= RECV_LEN /\ recved' >= 2 /\ (LenField(long_pkg') >= SHORT => recved' >= 4)
      BY <2>0, <2>1, ConstantFacts
    <3> QED
      BY <2>1, <3>1 DEF LongSized, HasHeader, PkgSize, HeadSize, LenField
  <2>4. ASSUME ~miscounted' PROVE Contiguous' /\ HandedOver'
    <3>1. ~miscounted /\ Data' = Fill(AllocLong, n)
      BY <2>1, <2>4 DEF Data
    <3>2. /\ AllocSize \in Nat /\ AllocLong \in [0 .. AllocSize - 1 -> Byte]
          /\ recved + n <= AllocSize
          /\ \A i \in 0 .. recved - 1 : AllocLong[i] = Data[i]
      <4>1. Polled /\ SizeSet /\ long_pkg_size' = AllocSize
        BY <1>7 DEF Fetch, ReadFrames
      <4> QED
        BY <1>1, <2>0, <2>1, <4>1, AllocFacts
    <3> QED
      BY <1>5, <2>1, <3>1, <3>2
  <2> QED
    BY <1>1, <1>4, <2>2, <2>3, <2>4 DEF Inv, Framed
<1> QED
  BY <1>6, <1>7
-----------------------------------------------------------------------------
(* What the peer sends.                                                     *)

Frame == [op : {TEXT, BINARY, CLOSE}, mask : [0 .. MaskSize - 1 -> Byte], body : Seq(Byte)]

LEMMA FrameType ==
    ASSUME NEW k \in 1 .. Len(Frames)
    PROVE  /\ Frames[k] \in Frame /\ Len(Frames[k].body) < BYTE * BYTE
           /\ Len(Frames[k].body) \in Nat
<1>1. Frames \in Seq(Frame)
  BY WsAssumption DEF Frame
<1>2. Frames[k] \in Frame
  BY <1>1
<1>3. Frames[k].body \in Seq(Byte)
  BY <1>2 DEF Frame
<1>4. Len(Frames[k].body) < BYTE * BYTE
  BY WsAssumption
<1> QED
  BY <1>2, <1>3, <1>4

\* A length of two bytes.
LEMMA TwoBytes ==
    ASSUME NEW len \in Nat, len < BYTE * BYTE
    PROVE  /\ len \div BYTE \in Byte /\ len % BYTE \in Byte
           /\ (len % BYTE) + BYTE * (len \div BYTE) = len
<1>1. BYTE \in Nat /\ BYTE > 0
  BY ConstantFacts
<1> DEFINE q == len \div BYTE
           r == len % BYTE
<1>2. q \in Int /\ r \in 0 .. BYTE - 1 /\ len = BYTE * q + r
  BY <1>1
<1> HIDE DEF q, r
<1>3. q >= 0
  <2>1. ASSUME q <= -1 PROVE FALSE
    <3>1. BYTE * q <= BYTE * (-1)
      BY <1>1, <1>2, <2>1
    <3> QED
      BY <1>1, <1>2, <3>1
  <2> QED
    BY <1>2, <2>1
<1>4. q < BYTE
  <2>1. ASSUME q >= BYTE PROVE FALSE
    <3>1. BYTE * q >= BYTE * BYTE
      BY <1>1, <1>2, <2>1
    <3> QED
      BY <1>1, <1>2, <3>1
  <2> QED
    BY <1>1, <1>2, <2>1
<1>5. q \in Byte /\ r \in Byte
  BY <1>1, <1>2, <1>3, <1>4 DEF Byte
<1>6. r + BYTE * q = len
  <2>1. BYTE * q \in Int
    BY <1>1, <1>2
  <2> QED
    BY <1>2, <2>1
<1> QED
  BY <1>5, <1>6 DEF q, r

\* The length field under the bit that says the frame is masked.
LEMMA UnderMaskBit ==
    ASSUME NEW l \in Nat, l < BYTE \div 2
    PROVE  BYTE \div 2 + l \in Byte /\ (BYTE \div 2 + l) % (BYTE \div 2) = l
<1> DEFINE h == BYTE \div 2
<1>1. h \in Nat /\ 2 * h <= BYTE /\ BYTE \in Nat /\ l < h
  BY ConstantFacts
<1> HIDE DEF h
<1>2. h + l \in Byte
  BY <1>1 DEF Byte
<1> DEFINE q == (h + l) \div h
           r == (h + l) % h
<1>3. q \in Int /\ r \in 0 .. h - 1 /\ h + l = h * q + r
  BY <1>1
<1> HIDE DEF q, r
<1>4. q >= 1
  <2>1. ASSUME q <= 0 PROVE FALSE
    <3>1. h * q <= h * 0
      BY <1>1, <1>3, <2>1
    <3> QED
      BY <1>1, <1>3, <3>1
  <2> QED
    BY <1>3, <2>1
<1>5. q <= 1
  <2>1. ASSUME q >= 2 PROVE FALSE
    <3>1. h * q >= h * 2
      BY <1>1, <1>3, <2>1
    <3> QED
      BY <1>1, <1>3, <3>1
  <2> QED
    BY <1>3, <2>1
<1>6. q = 1
  BY <1>3, <1>4, <1>5
<1>7. r = l
  BY <1>1, <1>3, <1>6
<1> QED
  BY <1>2, <1>7 DEF h, r

LEMMA MaskedFacts ==
    ASSUME NEW f \in Frame
    PROVE  /\ Masked(f) \in Seq(Byte) /\ Len(Masked(f)) = Len(f.body)
           /\ \A i \in 1 .. Len(f.body) :
                  /\ f.mask[(i - 1) % 4] \in Byte
                  /\ Masked(f)[i] = Xor[f.body[i]][f.mask[(i - 1) % 4]]
<1> DEFINE len == Len(f.body)
<1>1. /\ f.body \in Seq(Byte) /\ len \in Nat
      /\ f.mask \in [0 .. 3 -> Byte]
  BY DEF Frame, MaskSize
<1>2. \A i \in 1 .. len : f.body[i] \in Byte
  BY <1>1
<1> HIDE DEF len
<1>3. \A i \in 1 .. len : f.mask[(i - 1) % 4] \in Byte
  <2> TAKE i \in 1 .. len
  <2>1. (i - 1) % 4 \in 0 .. 3
    BY <1>1
  <2> QED
    BY <1>1, <2>1
<1>4. Xor \in [Byte -> [Byte -> Byte]]
  BY WsAssumption
<1>5. \A i \in 1 .. len : Xor[f.body[i]][f.mask[(i - 1) % 4]] \in Byte
  BY <1>2, <1>3, <1>4
<1>6. Masked(f) = [i \in 1 .. len |-> Xor[f.body[i]][f.mask[(i - 1) % 4]]]
  BY DEF Masked, MaskSize, len
<1>7. Masked(f) \in Seq(Byte) /\ Len(Masked(f)) = len
  BY <1>1, <1>5, <1>6
<1> QED
  BY <1>3, <1>6, <1>7 DEF len

LEMMA Joined ==
    ASSUME NEW s \in Seq(Byte), NEW t \in Seq(Byte)
    PROVE  /\ s \o t \in Seq(Byte)
           /\ Len(s) \in Nat /\ Len(t) \in Nat /\ Len(s \o t) = Len(s) + Len(t)
           /\ \A i \in 1 .. Len(s) : (s \o t)[i] = s[i]
           /\ \A i \in 1 .. Len(t) : (s \o t)[Len(s) + i] = t[i]
<1>1. /\ s \o t \in Seq(Byte) /\ Len(s) \in Nat /\ Len(t) \in Nat
      /\ Len(s \o t) = Len(s) + Len(t)
      /\ \A i \in 1 .. Len(s) + Len(t) :
             (s \o t)[i] = IF i <= Len(s) THEN s[i] ELSE t[i - Len(s)]
  BY ConcatProperties
<1>2. \A i \in 1 .. Len(s) : (s \o t)[i] = s[i]
  BY <1>1
<1>3. \A i \in 1 .. Len(t) : (s \o t)[Len(s) + i] = t[i]
  <2> TAKE i \in 1 .. Len(t)
  <2>1. /\ Len(s) + i \in 1 .. Len(s) + Len(t) /\ ~(Len(s) + i <= Len(s))
        /\ Len(s) + i - Len(s) = i
    BY <1>1
  <2> QED
    BY <1>1, <2>1
<1> QED
  BY <1>1, <1>2, <1>3

\* The bytes of a frame, the header first, then the mask, then the masked body.
LEMMA EncodeFacts ==
    ASSUME NEW f \in Frame, Len(f.body) < BYTE * BYTE
    PROVE  LET len  == Len(f.body)
               head == IF len < SHORT THEN 6 ELSE 8 IN
           /\ Len(Encode(f)) = head + len
           /\ Encode(f)[1] = f.op
           /\ Encode(f)[2] = BYTE \div 2 + IF len < SHORT THEN len ELSE SHORT
           /\ len < SHORT \/ (Encode(f)[3] = len \div BYTE /\ Encode(f)[4] = len % BYTE)
           /\ \A j \in 0 .. 3 : Encode(f)[head - 3 + j] = f.mask[j]
           /\ \A i \in 1 .. len : Encode(f)[head + i] = Masked(f)[i]
<1> DEFINE len  == Len(f.body)
           l    == IF len < SHORT THEN len ELSE SHORT
           s1   == <<f.op, BYTE \div 2 + l>>
           s2   == IF len < SHORT THEN <<>> ELSE <<len \div BYTE, len % BYTE>>
           s3   == [i \in 1 .. 4 |-> f.mask[i - 1]]
           s4   == Masked(f)
<1>1. /\ f.op \in Byte /\ f.mask \in [0 .. 3 -> Byte] /\ len \in Nat
  BY ConstantFacts DEF Frame, MaskSize
<1>2. BYTE \div 2 + l \in Byte
  <2>1. l \in Nat /\ l < BYTE \div 2
    BY <1>1, ConstantFacts
  <2> HIDE DEF l
  <2> QED
    BY <2>1, UnderMaskBit
<1>3. s1 \in Seq(Byte) /\ Len(s1) = 2 /\ s1[1] = f.op /\ s1[2] = BYTE \div 2 + l
  BY <1>1, <1>2
<1>4. s3 \in Seq(Byte) /\ Len(s3) = 4 /\ \A j \in 0 .. 3 : s3[j + 1] = f.mask[j]
  BY <1>1
<1>5. s4 \in Seq(Byte) /\ Len(s4) = len
  BY MaskedFacts
<1>6. Encode(f) = ((s1 \o s2) \o s3) \o s4
  BY DEF Encode, MaskSize
<1>7. /\ s2 \in Seq(Byte) /\ Len(s2) = IF len < SHORT THEN 0 ELSE 2
      /\ ~(len < SHORT) => s2[1] = len \div BYTE /\ s2[2] = len % BYTE
  BY <1>1, TwoBytes
<1> HIDE DEF s1, s2, s3, s4, len, l
<1> DEFINE a == s1 \o s2
           b == a \o s3
           c == b \o s4
<1>8. /\ a \in Seq(Byte) /\ Len(a) = 2 + Len(s2)
      /\ a[1] = s1[1] /\ a[2] = s1[2]
      /\ \A i \in 1 .. Len(s2) : a[2 + i] = s2[i]
  <2>1. /\ a \in Seq(Byte) /\ Len(a) = Len(s1) + Len(s2)
        /\ \A i \in 1 .. Len(s1) : a[i] = s1[i]
        /\ \A i \in 1 .. Len(s2) : a[Len(s1) + i] = s2[i]
    BY <1>3, <1>7, Joined
  <2> QED
    BY <1>3, <2>1
<1> HIDE DEF a
<1>9. /\ b \in Seq(Byte) /\ Len(b) = Len(a) + 4
      /\ \A i \in 1 .. Len(a) : b[i] = a[i]
      /\ \A i \in 1 .. 4 : b[Len(a) + i] = s3[i]
  <2>1. /\ b \in Seq(Byte) /\ Len(b) = Len(a) + Len(s3)
        /\ \A i \in 1 .. Len(a) : b[i] = a[i]
        /\ \A i \in 1 .. Len(s3) : b[Len(a) + i] = s3[i]
    BY <1>4, <1>8, Joined
  <2> QED
    BY <1>4, <2>1
<1> HIDE DEF b
<1>10. /\ Len(c) = Len(b) + len
       /\ \A i \in 1 .. Len(b) : c[i] = b[i]
       /\ \A i \in 1 .. len : c[Len(b) + i] = s4[i]
  <2>1. /\ Len(c) = Len(b) + Len(s4)
        /\ \A i \in 1 .. Len(b) : c[i] = b[i]
        /\ \A i \in 1 .. Len(s4) : c[Len(b) + i] = s4[i]
    BY <1>5, <1>9, Joined
  <2> QED
    BY <1>5, <2>1
<1> HIDE DEF c
<1>11. Encode(f) = c
  BY <1>6 DEF a, b, c
<1>12. CASE len < SHORT
  <2>1. Len(a) = 2 /\ Len(b) = 6 /\ Len(c) = 6 + len
    BY <1>1, <1>7, <1>8, <1>9, <1>10, <1>12
  <2>2. c[1] = f.op /\ c[2] = BYTE \div 2 + l
    BY <1>3, <1>8, <1>9, <1>10, <2>1
  <2>3. \A j \in 0 .. 3 : c[3 + j] = f.mask[j]
    <3> TAKE j \in 0 .. 3
    <3>1. j + 1 \in 1 .. 4 /\ 2 + (j + 1) = 3 + j /\ 3 + j \in 1 .. 6
      OBVIOUS
    <3>2. c[3 + j] = b[3 + j] /\ b[2 + (j + 1)] = s3[j + 1]
      BY <1>9, <1>10, <2>1, <3>1
    <3> QED
      BY <1>4, <3>1, <3>2
  <2> QED
    BY <1>10, <1>11, <1>12, <2>1, <2>2, <2>3 DEF len, l, s4
<1>13. CASE ~(len < SHORT)
  <2>1. Len(a) = 4 /\ Len(b) = 8 /\ Len(c) = 8 + len
    BY <1>1, <1>7, <1>8, <1>9, <1>10, <1>13
  <2>2. c[1] = f.op /\ c[2] = BYTE \div 2 + l
    BY <1>3, <1>8, <1>9, <1>10, <2>1
  <2>3. c[3] = len \div BYTE /\ c[4] = len % BYTE
    <3>1. a[2 + 1] = s2[1] /\ a[2 + 2] = s2[2]
      BY <1>7, <1>8, <1>13
    <3>2. c[3] = a[3] /\ c[4] = a[4]
      BY <1>9, <1>10, <2>1
    <3> QED
      BY <1>7, <1>13, <3>1, <3>2
  <2>4. \A j \in 0 .. 3 : c[5 + j] = f.mask[j]
    <3> TAKE j \in 0 .. 3
    <3>1. j + 1 \in 1 .. 4 /\ 4 + (j + 1) = 5 + j /\ 5 + j \in 1 .. 8
      OBVIOUS
    <3>2. c[5 + j] = b[5 + j] /\ b[4 + (j + 1)] = s3[j + 1]
      BY <1>9, <1>10, <2>1, <3>1
    <3> QED
      BY <1>4, <3>1, <3>2
  <2> QED
    BY <1>10, <1>11, <1>13, <2>1, <2>2, <2>3, <2>4 DEF len, l, s4
<1> QED
  BY <1>12, <1>13
-----------------------------------------------------------------------------
(* Frames.                                                                  *)

\* parser_ws_recv_data changes the body and nothing else.
LEMMA UnmaskFacts ==
    ASSUME NEW m \in Nat, NEW buf \in [0 .. m - 1 -> Byte],
           NEW head \in Nat, head >= 4, NEW size \in Nat, size <= m
    PROVE  /\ Unmask(buf, head, size) \in [0 .. m - 1 -> Byte]
           /\ \A i \in head .. size - 1 :
                  Unmask(buf, head, size)[i] = Xor[buf[i]][buf[head - 4 + ((i - head) % 4)]]
           /\ \A i \in size .. m - 1 : Unmask(buf, head, size)[i] = buf[i]
<1> DEFINE new == [i \in 0 .. m - 1 |->
                      IF head <= i /\ i < size
                      THEN Xor[buf[i]][buf[head - 4 + ((i - head) % 4)]]
                      ELSE buf[i]]
<1>1. Unmask(buf, head, size) = new
  BY DEF Unmask, MaskSize
<1>2. \A i \in 0 .. m - 1 : new[i] \in Byte
  <2> TAKE i \in 0 .. m - 1
  <2>1. CASE head <= i /\ i < size
    <3>1. i - head \in Nat
      BY <2>1
    <3>2. (i - head) % 4 \in 0 .. 3
      BY <3>1
    <3>3. head - 4 + ((i - head) % 4) \in 0 .. m - 1
      BY <2>1, <3>2
    <3>4. buf[i] \in Byte /\ buf[head - 4 + ((i - head) % 4)] \in Byte
      BY <3>3
    <3>5. Xor \in [Byte -> [Byte -> Byte]]
      BY WsAssumption
    <3>6. Xor[buf[i]][buf[head - 4 + ((i - head) % 4)]] \in Byte
      BY <3>4, <3>5
    <3> QED
      BY <2>1, <3>6
  <2>2. CASE ~(head <= i /\ i < size)
    BY <2>2
  <2> QED
    BY <2>1, <2>2
<1>3. /\ \A i \in head .. size - 1 : new[i] = Xor[buf[i]][buf[head - 4 + ((i - head) % 4)]]
      /\ \A i \in size .. m - 1 : new[i] = buf[i]
  OBVIOUS
<1>4. new \in [0 .. m - 1 -> Byte]
  BY <1>2
<1> QED
  BY <1>1, <1>3, <1>4

\* At a frame boundary the data begins with the frame the peer sent.
LEMMA FrameBytes ==
    ASSUME Inv, is_ws_shake, ~miscounted, recved > 0
    PROVE  /\ At \in 1 .. Len(Frames)
           /\ Start[At + 1] = Start[At] + Len(Encode(Frames[At]))
           /\ \A i \in 0 .. recved - 1 :
                  i < Len(Encode(Frames[At])) => Data[i] = Encode(Frames[At])[i + 1]
<1>1. TypeOK /\ Contiguous
  BY DEF Inv, Framed
<1>2. /\ recved \in Nat /\ read \in Nat /\ read <= Shake + Len(Wire)
      /\ At \in Nat /\ At >= 1 /\ At <= Len(Frames) + 1
      /\ recved = read - Shake - Start[At] /\ Holds(Data, recved, Start[At])
  <2>1. delivered \in Seq(Seq(Byte))
    BY <1>1 DEF TypeOK
  <2>2. At \in Nat /\ At >= 1
    BY <2>1 DEF At
  <2>3. recved \in Nat /\ read \in Nat /\ read <= Shake + Len(Wire)
    BY <1>1, DataType, ReadType
  <2> QED
    BY <1>1, <2>1, <2>2, <2>3 DEF Contiguous
<1>3. At # Len(Frames) + 1
  BY <1>2, WireFacts, SizeFacts
<1>4. At \in 1 .. Len(Frames)
  BY <1>2, <1>3, WireFacts
<1> DEFINE code == Encode(Frames[At])
           k == At
<1>5. /\ Start[k + 1] = Start[k] + Len(code)
      /\ \A i \in 1 .. Len(code) : Wire[Start[k] + i] = code[i]
  BY <1>4, WireAssumption
<1>6. Start[k] \in Nat
  BY <1>2, WireFacts
<1>7. Len(code) \in Nat
  <2>1. Start[k + 1] \in Nat
    BY <1>4, WireFacts
  <2>2. Frames[k] \in Frame /\ Len(Frames[k].body) < BYTE * BYTE /\ Len(Frames[k].body) \in Nat
    BY <1>4, FrameType
  <2> DEFINE len == Len(Frames[k].body)
             head == IF len < SHORT THEN 6 ELSE 8
  <2>3. Len(code) = head + len
    BY <2>2, EncodeFacts
  <2>4. head \in Nat /\ len \in Nat
    BY <2>2
  <2> HIDE DEF code, head, len
  <2> QED
    BY <2>3, <2>4
<1> HIDE DEF code, k
<1>8. \A i \in 0 .. recved - 1 : i < Len(code) => Data[i] = code[i + 1]
  <2> TAKE i \in 0 .. recved - 1
  <2> HAVE i < Len(code)
  <2>1. Data[i] = Wire[Start[k] + i + 1]
    BY <1>2 DEF Holds, k
  <2>2. i + 1 \in 1 .. Len(code) /\ Start[k] + i + 1 = Start[k] + (i + 1)
    BY <1>2, <1>6, <1>7
  <2> QED
    BY <1>5, <2>1, <2>2
<1> QED
  BY <1>4, <1>5, <1>8 DEF code, k

\* The header of a frame, as read_ws_header finds it.
LEMMA FrameHeader ==
    ASSUME Inv, is_ws_shake, ~miscounted, HasHeader(Data)
    PROVE  LET f == Frames[At] IN
           /\ At \in 1 .. Len(Frames) /\ f.op # CLOSE
           /\ HeadSize(Data) = IF Len(f.body) < SHORT THEN 6 ELSE 8
           /\ PkgSize(Data) = HeadSize(Data) + Len(f.body)
           /\ PkgSize(Data) = Len(Encode(f))
<1> DEFINE f == Frames[At]
           len == Len(f.body)
           l == IF len < SHORT THEN len ELSE SHORT
           head == IF len < SHORT THEN 6 ELSE 8
           code == Encode(f)
<1>1. PICK m \in Nat : recved <= m /\ Data \in [0 .. m - 1 -> Byte]
  BY DataType DEF Inv
<1>2. /\ recved \in Nat /\ recved >= 2 /\ (LenField(Data) >= SHORT => recved >= 4)
      /\ Data[0] # CLOSE /\ HeadSize(Data) = IF LenField(Data) < SHORT THEN 6 ELSE 8
  <2>1. recved \in Nat
    BY DataType DEF Inv
  <2> QED
    BY <1>1, <2>1, HeaderFacts
<1>3. /\ At \in 1 .. Len(Frames)
      /\ \A i \in 0 .. recved - 1 : i < Len(code) => Data[i] = code[i + 1]
  BY <1>2, FrameBytes
<1>4. f \in Frame /\ len < BYTE * BYTE /\ len \in Nat
  BY <1>3, FrameType
<1>5. /\ Len(code) = head + len /\ code[1] = f.op /\ code[2] = BYTE \div 2 + l
      /\ len < SHORT \/ (code[3] = len \div BYTE /\ code[4] = len % BYTE)
  BY <1>4, EncodeFacts
<1>6. l \in Nat /\ l < BYTE \div 2
  BY <1>4, ConstantFacts
<1> HIDE DEF f, len, l, code
<1>7. Data[0] = f.op /\ Data[1] = BYTE \div 2 + l
  <2>1. 0 \in 0 .. recved - 1 /\ 1 \in 0 .. recved - 1 /\ 0 < Len(code) /\ 1 < Len(code)
    BY <1>2, <1>4, <1>5
  <2>2. Data[0] = code[0 + 1] /\ Data[1] = code[1 + 1]
    BY <1>3, <2>1
  <2> QED
    BY <1>5, <2>2
<1>8. LenField(Data) = l
  BY <1>6, <1>7, UnderMaskBit DEF LenField
<1>9. l < SHORT <=> len < SHORT
  BY <1>4, ConstantFacts DEF l
<1>10. HeadSize(Data) = head
  BY <1>2, <1>8, <1>9
<1>11. PkgSize(Data) = head + len
  <2>1. CASE len < SHORT
    BY <1>8, <1>9, <1>10, <2>1 DEF PkgSize, l
  <2>2. CASE ~(len < SHORT)
    <3>1. recved >= 4
      BY <1>2, <1>6, <1>8, <1>9, <2>2, ConstantFacts
    <3>2. 2 \in 0 .. recved - 1 /\ 3 \in 0 .. recved - 1 /\ 2 < Len(code) /\ 3 < Len(code)
      BY <1>2, <1>4, <1>5, <3>1
    <3>3. Data[2] = code[2 + 1] /\ Data[3] = code[3 + 1]
      BY <1>3, <3>2
    <3>4. Data[3] + BYTE * Data[2] = len
      BY <1>4, <1>5, <2>2, <3>3, TwoBytes
    <3> QED
      BY <1>8, <1>9, <1>10, <2>2, <3>4 DEF PkgSize
  <2> QED
    BY <2>1, <2>2
<1> QED
  BY <1>2, <1>3, <1>5, <1>7, <1>10, <1>11 DEF f, len, code

\* What is handed over is the body the peer masked.
LEMMA FrameBody ==
    ASSUME Inv, is_ws_shake, ~miscounted, HasFrame
    PROVE  LET head == HeadSize(Data)
               size == PkgSize(Data)
               clear == Unmask(Data, head, size) IN
           [i \in 1 .. size - head |-> clear[head + i - 1]] = Frames[At].body
<1> DEFINE f == Frames[At]
           len == Len(f.body)
           head == HeadSize(Data)
           size == PkgSize(Data)
           clear == Unmask(Data, head, size)
           code == Encode(f)
<1>1. PICK m \in Nat : recved <= m /\ Data \in [0 .. m - 1 -> Byte]
  BY DataType DEF Inv
<1>2. HasHeader(Data) /\ size <= recved /\ recved \in Nat /\ recved > 0
  <2>1. recved \in Nat /\ HasHeader(Data)
    BY DataType DEF Inv, HasFrame
  <2> QED
    BY <2>1 DEF HasFrame, HasHeader
<1>3. /\ At \in 1 .. Len(Frames) /\ head = IF len < SHORT THEN 6 ELSE 8
      /\ size = head + len /\ size = Len(code)
  BY <1>2, FrameHeader
<1>4. f \in Frame /\ len < BYTE * BYTE /\ len \in Nat /\ f.body \in Seq(Byte)
  BY <1>3, FrameType DEF Frame
<1>5. /\ \A j \in 0 .. 3 : code[head - 3 + j] = f.mask[j]
      /\ \A i \in 1 .. len : code[head + i] = Masked(f)[i]
  <2> DEFINE hd == IF len < SHORT THEN 6 ELSE 8
  <2>1. /\ \A j \in 0 .. 3 : code[hd - 3 + j] = f.mask[j]
        /\ \A i \in 1 .. len : code[hd + i] = Masked(f)[i]
    BY <1>4, EncodeFacts
  <2>2. head = hd
    BY <1>3
  <2> HIDE DEF f, len, head, code, hd
  <2> QED
    BY <2>1, <2>2
<1>6. \A i \in 0 .. recved - 1 : i < Len(code) => Data[i] = code[i + 1]
  BY <1>2, FrameBytes
<1>7. \A i \in 1 .. len : /\ f.mask[(i - 1) % 4] \in Byte
                          /\ Masked(f)[i] = Xor[f.body[i]][f.mask[(i - 1) % 4]]
  BY <1>4, MaskedFacts
<1>8. head \in Nat /\ head >= 4 /\ size \in Nat /\ size <= m
  <2> HIDE DEF f, len, head, size, code
  <2> QED
    BY <1>1, <1>2, <1>3, <1>4
<1>9. \A i \in head .. size - 1 :
          clear[i] = Xor[Data[i]][Data[head - 4 + ((i - head) % 4)]]
  <2> HIDE DEF head, size
  <2> QED
    BY <1>1, <1>8, UnmaskFacts
<1> HIDE DEF f, len, head, size, clear, code
<1>10. \A i \in 1 .. len : clear[head + i - 1] = f.body[i]
  <2> TAKE i \in 1 .. len
  <2> DEFINE j == (i - 1) % 4
  <2>1. j \in 0 .. 3
    BY <1>4
  <2>2. /\ head + i - 1 \in head .. size - 1 /\ head + i - 1 - head = i - 1
        /\ head + i - 1 \in 0 .. recved - 1 /\ head + i - 1 < Len(code)
        /\ head + i - 1 + 1 = head + i
    BY <1>2, <1>3, <1>4, <1>8
  <2>3. clear[head + i - 1] = Xor[Data[head + i - 1]][Data[head - 4 + j]]
    <3> DEFINE x == head + i - 1
    <3>0. x \in head .. size - 1 /\ x - head = i - 1
      BY <1>2, <1>3, <1>4, <1>8
    <3> HIDE DEF x
    <3>1. (x - head) % 4 = j
      BY <3>0
    <3> HIDE DEF j
    <3>2. clear[x] = Xor[Data[x]][Data[head - 4 + ((x - head) % 4)]]
      BY <1>9, <3>0
    <3> QED
      BY <3>1, <3>2 DEF x
  <2> HIDE DEF j
  <2>4. Data[head + i - 1] = Masked(f)[i]
    BY <1>5, <1>6, <2>2
  <2>5. /\ head - 4 + j \in 0 .. recved - 1 /\ head - 4 + j < Len(code)
        /\ head - 4 + j + 1 = head - 3 + j
    BY <1>2, <1>3, <1>4, <1>8, <2>1
  <2>6. Data[head - 4 + j] = f.mask[j]
    BY <1>5, <1>6, <2>1, <2>5
  <2>7. Masked(f)[i] = Xor[f.body[i]][f.mask[j]] /\ f.mask[j] \in Byte
    BY <1>7 DEF j
  <2>8. f.body[i] \in Byte
    BY <1>4 DEF len
  <2>9. Xor[Xor[f.body[i]][f.mask[j]]][f.mask[j]] = f.body[i]
    BY <2>7, <2>8, WsAssumption
  <2> QED
    BY <2>3, <2>4, <2>6, <2>7, <2>9
<1>11. f.body = [i \in 1 .. len |-> f.body[i]]
  BY <1>4 DEF len
<1>12. size - head = len
  BY <1>3, <1>4, <1>8
<1>13. [i \in 1 .. size - head |-> clear[head + i - 1]] = f.body
  BY <1>10, <1>11, <1>12
<1> QED
  BY <1>13 DEF f, head, size, clear
-----------------------------------------------------------------------------
(* The turns of the loop.                                                   *)

\* The size of a complete frame, and what its bytes are once unmasked.
LEMMA ClearFacts ==
    ASSUME TypeOK, HasFrame
    PROVE  LET head == HeadSize(Data)
               size == PkgSize(Data)
               clear == Unmask(Data, head, size) IN
           /\ recved \in Nat /\ head \in Nat /\ head >= 4 /\ size \in Nat
           /\ head <= size /\ size <= recved
           /\ \E m \in Nat : /\ recved <= m /\ Data \in [0 .. m - 1 -> Byte]
                             /\ clear \in [0 .. m - 1 -> Byte]
                             /\ \A i \in size .. m - 1 : clear[i] = Data[i]
<1> DEFINE head == HeadSize(Data)
           size == PkgSize(Data)
           clear == Unmask(Data, head, size)
<1>1. PICK m \in Nat : recved <= m /\ Data \in [0 .. m - 1 -> Byte]
  BY DataType
<1>2. recved \in Nat /\ HasHeader(Data) /\ size <= recved
  BY DataType DEF HasFrame
<1>3. /\ head = (IF LenField(Data) < SHORT THEN 6 ELSE 8) /\ head \in Nat
      /\ size \in Nat /\ head <= size
  BY <1>1, <1>2, HeaderFacts
<1> HIDE DEF head, size
<1>4. head >= 4 /\ size <= m
  BY <1>1, <1>2, <1>3
<1>5. clear \in [0 .. m - 1 -> Byte] /\ \A i \in size .. m - 1 : clear[i] = Data[i]
  BY <1>1, <1>3, <1>4, UnmaskFacts
<1> HIDE DEF clear
<1>6. \E k \in Nat : /\ recved <= k /\ Data \in [0 .. k - 1 -> Byte]
                     /\ clear \in [0 .. k - 1 -> Byte]
                     /\ \A i \in size .. k - 1 : clear[i] = Data[i]
  BY <1>1, <1>5
<1> QED
  BY <1>2, <1>3, <1>4, <1>6 DEF head, size, clear

\* The rest of the data moves to the front; a heap block has no rest.
LEMMA CutFacts ==
    ASSUME TypeOK, LongSized, HasFrame,
           Cut(Unmask(Data, HeadSize(Data), PkgSize(Data)), PkgSize(Data))
    PROVE  /\ recved' \in Nat /\ recved' = recved - PkgSize(Data)
           /\ recv_buf' \in [0 .. RECV_LEN - 1 -> Byte]
           /\ long_pkg_size' = 0 /\ long_pkg' \in [0 .. -1 -> Byte]
           /\ recved' <= RECV_LEN
           /\ \A i \in 0 .. recved' - 1 : Data'[i] = Data[i + PkgSize(Data)]
<1> DEFINE head == HeadSize(Data)
           size == PkgSize(Data)
           clear == Unmask(Data, head, size)
<1>1. /\ recved \in Nat /\ size \in Nat /\ size <= recved
  BY ClearFacts
<1>2. Cut(clear, size)
  OBVIOUS
<1>3. /\ recv_buf \in [0 .. RECV_LEN - 1 -> Byte]
      /\ long_pkg_size \in Nat /\ long_pkg \in [0 .. long_pkg_size - 1 -> Byte]
      /\ recved \in 0 .. IF long_pkg_size = 0 THEN RECV_LEN ELSE long_pkg_size
  BY DEF TypeOK
<1>4. CASE long_pkg_size = 0
  <2>1. Data = recv_buf /\ recved <= RECV_LEN
    BY <1>3, <1>4, SizeFacts DEF Data
  <2>2. /\ clear \in [0 .. RECV_LEN - 1 -> Byte]
        /\ \A i \in size .. RECV_LEN - 1 : clear[i] = recv_buf[i]
    <3>1. head \in Nat /\ head >= 4
      BY ClearFacts
    <3> HIDE DEF head, size
    <3> QED
      BY <1>1, <1>3, <2>1, <3>1, SizeFacts, UnmaskFacts
  <2> HIDE DEF head, size, clear
  <2>3. /\ recved' = recved - size /\ recv_buf' = Shift(clear, size)
        /\ UNCHANGED <<long_pkg, long_pkg_size>>
    BY <1>2, <1>4 DEF Cut
  <2>4. recv_buf' = [i \in 0 .. RECV_LEN - 1 |->
                        IF i < recved - size THEN clear[i + size] ELSE clear[i]]
    BY <2>2, <2>3 DEF Shift
  <2>5. recv_buf' \in [0 .. RECV_LEN - 1 -> Byte]
    <3>1. \A i \in 0 .. RECV_LEN - 1 :
              (IF i < recved - size THEN clear[i + size] ELSE clear[i]) \in Byte
      BY <1>1, <2>1, <2>2, SizeFacts
    <3> QED
      BY <2>4, <3>1
  <2>6. \A i \in 0 .. recved' - 1 : recv_buf'[i] = recv_buf[i + size]
    <3> TAKE i \in 0 .. recved' - 1
    <3>1. i \in 0 .. RECV_LEN - 1 /\ i < recved - size /\ i + size \in size .. RECV_LEN - 1
      BY <1>1, <2>1, <2>3, SizeFacts
    <3> QED
      BY <2>2, <2>4, <3>1
  <2>7. recved' \in Nat /\ recved' <= RECV_LEN
    BY <1>1, <2>1, <2>3, SizeFacts
  <2>8. Data' = recv_buf' /\ long_pkg' \in [0 .. -1 -> Byte]
    BY <1>3, <1>4, <2>3 DEF Data
  <2> QED
    BY <1>4, <2>1, <2>3, <2>5, <2>6, <2>7, <2>8 DEF size
<1>5. CASE long_pkg_size # 0
  <2>1. Data = long_pkg /\ recved <= long_pkg_size /\ size = long_pkg_size
    BY <1>3, <1>5 DEF Data, LongSized
  <2>2. recved' = 0
    BY <1>1, <1>2, <1>3, <2>1 DEF Cut
  <2>3. recv_buf' = recv_buf /\ long_pkg' = NoPkg /\ long_pkg_size' = 0
    BY <1>2, <1>5, <2>2 DEF Cut
  <2> HIDE DEF size
  <2> QED
    BY <1>1, <1>2, <1>3, <2>2, <2>3, SizeFacts DEF Cut, NoPkg, size
<1> QED
  BY <1>4, <1>5

\* What a turn of the loop hands over.
LEMMA Handed ==
    ASSUME Inv, NEW ok, ParseFrame(ok)
    PROVE  /\ is_ws_shake /\ HasFrame
           /\ delivered \in Seq(Seq(Byte)) /\ delivered' \in Seq(Seq(Byte))
           /\ Len(delivered') = Len(delivered) + 1
           /\ \A k \in 1 .. Len(delivered) : delivered'[k] = delivered[k]
           /\ ~miscounted => /\ At \in 1 .. Len(Frames) /\ Frames[At].op # CLOSE
                             /\ PkgSize(Data) = Len(Encode(Frames[At]))
                             /\ delivered' = Append(delivered, Frames[At].body)
<1> DEFINE head == HeadSize(Data)
           size == PkgSize(Data)
           clear == Unmask(Data, head, size)
           body == [i \in 1 .. size - head |-> clear[head + i - 1]]
<1>1. /\ TypeOK /\ HasFrame /\ HasHeader(Data) /\ is_ws_shake
      /\ delivered' = Append(delivered, body)
      /\ delivered \in Seq(Seq(Byte))
  BY DEF Inv, ParseFrame, Shaking, HasFrame, TypeOK
<1>2. PICK m \in Nat : recved <= m /\ clear \in [0 .. m - 1 -> Byte]
  BY <1>1, ClearFacts
<1>3. recved \in Nat /\ head \in Nat /\ size \in Nat /\ head <= size /\ size <= recved
  BY <1>1, ClearFacts
<1>4. body \in Seq(Byte)
  <2> HIDE DEF head, size, clear
  <2>1. \A i \in 1 .. size - head : clear[head + i - 1] \in Byte
    BY <1>2, <1>3
  <2>2. size - head \in Nat
    BY <1>3
  <2> QED
    BY <2>1, <2>2
<1>5. ASSUME ~miscounted
      PROVE  /\ At \in 1 .. Len(Frames) /\ Frames[At].op # CLOSE
             /\ size = Len(Encode(Frames[At])) /\ body = Frames[At].body
  BY <1>1, <1>5, FrameHeader, FrameBody
<1> HIDE DEF body
<1>6. /\ delivered' \in Seq(Seq(Byte)) /\ Len(delivered') = Len(delivered) + 1
      /\ \A k \in 1 .. Len(delivered) : delivered'[k] = delivered[k]
  BY <1>1, <1>4
<1> QED
  BY <1>1, <1>5, <1>6

LEMMA ParseFrameInv ==
    ASSUME Inv, NEW ok \in BOOLEAN, ParseFrame(ok) PROVE Inv'
<1> DEFINE size == PkgSize(Data)
<1>1. /\ TypeOK /\ LongSized /\ Framed /\ is_ws_shake /\ HasFrame /\ pc = "parse"
      /\ Cut(Unmask(Data, HeadSize(Data), PkgSize(Data)), PkgSize(Data))
      /\ conn' \in {"open", "closing", "closed"}
      /\ UNCHANGED <<is_ws_shake, reading, pc, read, miscounted>>
  BY DEF Inv, ParseFrame, Shaking, TypeOK, Close
<1>2. /\ recved' \in Nat /\ recved' = recved - size
      /\ recv_buf' \in [0 .. RECV_LEN - 1 -> Byte]
      /\ long_pkg_size' = 0 /\ long_pkg' \in [0 .. -1 -> Byte]
      /\ recved' <= RECV_LEN
      /\ \A i \in 0 .. recved' - 1 : Data'[i] = Data[i + size]
  BY <1>1, CutFacts
<1>3. /\ recved \in Nat /\ size \in Nat /\ size <= recved
  BY <1>1, ClearFacts
<1>4. /\ delivered \in Seq(Seq(Byte)) /\ delivered' \in Seq(Seq(Byte))
      /\ Len(delivered') = Len(delivered) + 1
      /\ \A k \in 1 .. Len(delivered) : delivered'[k] = delivered[k]
      /\ ~miscounted => /\ At \in 1 .. Len(Frames) /\ Frames[At].op # CLOSE
                        /\ size = Len(Encode(Frames[At]))
                        /\ delivered' = Append(delivered, Frames[At].body)
  BY Handed
<1>5. TypeOK'
  <2>1. recved' \in 0 .. IF long_pkg_size' = 0 THEN RECV_LEN ELSE long_pkg_size'
    BY <1>2, SizeFacts
  <2>2. read' \in 0 .. Sendable(TRUE)
    BY <1>1 DEF TypeOK
  <2>3. long_pkg_size' \in Nat /\ long_pkg' \in [0 .. long_pkg_size' - 1 -> Byte]
    BY <1>2
  <2> QED
    BY <1>1, <1>2, <1>4, <2>1, <2>2, <2>3 DEF TypeOK
<1>6. LongSized' /\ NoneComplete'
  BY <1>1, <1>2 DEF LongSized, NoneComplete
<1>7. ASSUME ~miscounted PROVE Contiguous' /\ HandedOver'
  <2>1. Contiguous /\ HandedOver
    BY <1>1, <1>7 DEF Framed
  <2>2. /\ recved = read - Shake - Start[At] /\ Holds(Data, recved, Start[At])
    BY <2>1 DEF Contiguous
  <2>3. /\ At \in 1 .. Len(Frames) /\ At' = At + 1 /\ Len(delivered) \in Nat
        /\ Len(delivered') = At
    BY <1>4, <1>7 DEF At
  <2>4. Start[At + 1] = Start[At] + size /\ Start[At] \in Nat /\ read \in Nat
    <3>1. Start[At + 1] = Start[At] + Len(Encode(Frames[At]))
      BY <2>3, WireAssumption
    <3>2. Start[At] \in Nat
      BY <2>3, WireFacts
    <3>3. read \in Nat
      BY <1>1, ReadType
    <3> QED
      BY <1>4, <1>7, <3>1, <3>2, <3>3
  <2> HIDE DEF size
  <2>5. recved' = read - Shake - Start[At + 1]
    BY <1>2, <1>3, <2>2, <2>4, SizeFacts
  <2>6. Holds(Data', recved', Start[At + 1])
    <3>1. ASSUME NEW i \in 0 .. recved' - 1
          PROVE  Data'[i] = Wire[Start[At + 1] + i + 1]
      <4>1. i + size \in 0 .. recved - 1
        BY <1>2, <1>3
      <4>2. Data[i + size] = Wire[Start[At] + (i + size) + 1]
        BY <2>2, <4>1 DEF Holds
      <4>3. Start[At] + (i + size) + 1 = Start[At + 1] + i + 1
        BY <1>2, <1>3, <2>4
      <4> QED
        BY <1>2, <4>2, <4>3
    <3> QED
      BY <3>1 DEF Holds
  <2>7. Contiguous'
    <3>1. At + 1 <= Len(Frames) + 1
      BY <2>3, WireFacts
    <3>2. recved' = read' - Shake - Start[At']
      BY <1>1, <2>3, <2>5
    <3>3. Holds(Data', recved', Start[At'])
      BY <2>3, <2>6
    <3> QED
      BY <2>3, <3>1, <3>2, <3>3 DEF Contiguous, Holds
  <2>8. HandedOver'
    <3>1. ASSUME NEW k \in 1 .. Len(delivered')
          PROVE  Frames[k].op # CLOSE /\ delivered'[k] = Frames[k].body
      <4>1. CASE k = At
        BY <1>4, <1>7, <4>1 DEF At
      <4>2. CASE k # At
        <5>1. k \in 1 .. Len(delivered)
          BY <2>3, <4>2 DEF At
        <5> QED
          BY <1>4, <2>1, <5>1 DEF HandedOver
      <4> QED
        BY <4>1, <4>2
    <3> QED
      BY <3>1 DEF HandedOver
  <2> QED
    BY <2>7, <2>8
<1> QED
  BY <1>1, <1>5, <1>6, <1>7 DEF Inv, Framed

\* A step that leaves what was received alone.
LEMMA SameDataInv ==
    ASSUME Inv, UNCHANGED <<buffers, is_ws_shake, read, delivered, miscounted>>,
           conn' \in {"open", "closing", "closed"}, reading' \in BOOLEAN,
           pc' \in {"poll", "parse", "undefined"},
           ~is_ws_shake => pc' = "poll",
           is_ws_shake /\ pc' = "poll" /\ HasHeader(Data) => PkgSize(Data) > recved
    PROVE  Inv'
<1>1. /\ recv_buf' = recv_buf /\ recved' = recved /\ long_pkg' = long_pkg
      /\ long_pkg_size' = long_pkg_size /\ is_ws_shake' = is_ws_shake
      /\ read' = read /\ delivered' = delivered /\ miscounted' = miscounted
  BY DEF buffers
<1>2. TypeOK' /\ LongSized'
  BY <1>1 DEF Inv, TypeOK, LongSized, HasHeader, PkgSize, HeadSize, LenField
<1>3. Data' = Data /\ At' = At
  BY <1>1 DEF Data, At
<1>4. CASE is_ws_shake
  <2>1. NoneComplete'
    BY <1>1, <1>3, <1>4 DEF NoneComplete, HasHeader, PkgSize, HeadSize, LenField
  <2>2. Framed'
    BY <1>1, <1>3, <1>4 DEF Inv, Framed, Contiguous, HandedOver, Holds
  <2> QED
    BY <1>1, <1>2, <1>4, <2>1, <2>2 DEF Inv
<1>5. CASE ~is_ws_shake
  <2>1. Shaking'
    BY <1>1, <1>5 DEF Inv, Shaking
  <2> QED
    BY <1>1, <1>2, <1>5, <2>1 DEF Inv
<1> QED
  BY <1>4, <1>5

\* A close frame is no data frame: the loop leaves no complete frame behind.
LEMMA ParseCloseInv == Inv /\ ParseClose => Inv'
<1> SUFFICES ASSUME Inv, ParseClose PROVE Inv'
  OBVIOUS
<1>1. ~HasHeader(Data)
  BY ConstantFacts DEF ParseClose, AtClose, HasHeader
<1>2. /\ UNCHANGED <<buffers, is_ws_shake, reading, read, delivered, miscounted>>
      /\ pc' = "poll" /\ conn' \in {"open", "closing", "closed"} /\ reading \in BOOLEAN
  BY DEF ParseClose, Close, Inv, TypeOK
<1> QED
  BY <1>1, <1>2, SameDataInv

LEMMA ParseEndInv == Inv /\ ParseEnd => Inv'
<1> SUFFICES ASSUME Inv, ParseEnd PROVE Inv'
  OBVIOUS
<1>1. /\ UNCHANGED <<buffers, is_ws_shake, conn, reading, read, delivered, miscounted>>
      /\ pc' = "poll" /\ ~HasFrame /\ ~AtClose
      /\ TypeOK /\ conn \in {"open", "closing", "closed"} /\ reading \in BOOLEAN
  BY DEF ParseEnd, Inv, TypeOK
<1>2. ASSUME HasHeader(Data) PROVE PkgSize(Data) > recved
  <2>1. ~(PkgSize(Data) <= recved)
    BY <1>1, <1>2 DEF HasFrame
  <2>2. PICK m \in Nat : recved <= m /\ Data \in [0 .. m - 1 -> Byte]
    BY <1>1, DataType
  <2>3. recved \in Nat /\ PkgSize(Data) \in Nat
    BY <1>1, <1>2, <2>2, DataType, HeaderFacts
  <2> QED
    BY <2>1, <2>3
<1> QED
  BY <1>1, <1>2, SameDataInv

\* The buffer of the last read was allocated although no byte came.
LEMMA ReadEndInv == Inv /\ ReadEnd => Inv'
<1> SUFFICES ASSUME Inv, ReadEnd PROVE Inv'
  OBVIOUS
<1>1. /\ TypeOK /\ LongSized /\ Polled /\ SizeSet /\ pc = "poll"
      /\ reading' \in BOOLEAN /\ conn' \in {"open", "closing", "closed"}
      /\ UNCHANGED <<recv_buf, recved, is_ws_shake, pc, read, delivered, miscounted>>
      /\ recved \in Nat
  <2>1. /\ TypeOK /\ LongSized /\ Polled /\ SizeSet /\ pc = "poll"
        /\ conn \in {"open", "closing", "closed"}
    BY DEF Inv, TypeOK, Polled, ReadEnd
  <2>2. /\ reading' \in BOOLEAN /\ conn' \in {"open", "closing", "closed"}
        /\ UNCHANGED <<recv_buf, recved, is_ws_shake, pc, read, delivered, miscounted>>
    BY <2>1 DEF ReadEnd, Close
  <2> QED
    BY <2>1, <2>2, DataType
<1>2. CASE recved < RECV_LEN
  <2>1. UNCHANGED buffers
    BY <1>1, <1>2 DEF ReadEnd, buffers
  <2>2. is_ws_shake /\ HasHeader(Data) => PkgSize(Data) > recved
    BY <1>1 DEF Inv, NoneComplete
  <2> QED
    BY <1>1, <2>1, <2>2, SameDataInv
<1>3. CASE ~(recved < RECV_LEN)
  <2>1. is_ws_shake /\ recved >= RECV_LEN
    BY <1>1, <1>3, SizeFacts DEF Inv, Shaking
  <2>2. long_pkg' = AllocLong /\ long_pkg_size' = AllocSize
    BY <1>3 DEF ReadEnd
  <2>3. /\ AllocSize \in Nat /\ AllocSize > recved
        /\ AllocLong \in [0 .. AllocSize - 1 -> Byte]
        /\ HasHeader(Data) /\ PkgSize(Data) = AllocSize
        /\ \A i \in 0 .. recved - 1 : AllocLong[i] = Data[i]
    BY <1>1, <2>1, AllocFacts
  <2>4. PICK m \in Nat : recved <= m /\ Data \in [0 .. m - 1 -> Byte]
    BY <1>1, DataType
  <2>5. /\ AllocLong[0] \in {TEXT, BINARY} /\ LenField(AllocLong) = LenField(Data)
        /\ PkgSize(AllocLong) = AllocSize
    BY <1>1, <2>3, <2>4, HeaderKept
  <2>6. long_pkg_size' \in Nat /\ long_pkg_size' > 0 /\ Data' = AllocLong /\ At' = At
    BY <1>1, <2>2, <2>3 DEF Data, At
  <2>7. TypeOK'
    <3>1. recved' \in 0 .. IF long_pkg_size' = 0 THEN RECV_LEN ELSE long_pkg_size'
      BY <1>1, <2>2, <2>3
    <3> QED
      BY <1>1, <2>2, <2>3, <3>1 DEF TypeOK
  <2>8. PkgSize(long_pkg') = long_pkg_size' /\ HasHeader(long_pkg)'
    <3>1. recved' >= 2 /\ (LenField(long_pkg') >= SHORT => recved' >= 4)
      BY <1>1, <2>2, <2>3, <2>5 DEF HasHeader
    <3>2. long_pkg'[0] \in {TEXT, BINARY} /\ PkgSize(long_pkg') = long_pkg_size'
      BY <2>2, <2>5
    <3> QED
      BY <3>1, <3>2 DEF HasHeader, LenField
  <2>9. LongSized'
    BY <1>1, <2>1, <2>8 DEF LongSized, PkgSize, HeadSize, LenField
  <2>10. NoneComplete'
    <3>1. PkgSize(Data') > recved'
      BY <1>1, <2>3, <2>5, <2>6
    <3> QED
      BY <3>1 DEF NoneComplete, PkgSize, HeadSize, LenField
  <2>11. ASSUME ~miscounted PROVE Contiguous' /\ HandedOver'
    <3>1. Contiguous /\ HandedOver
      BY <2>1, <2>11 DEF Inv, Framed
    <3>2. Holds(Data', recved', Start[At])
      BY <1>1, <2>3, <2>6, <3>1 DEF Contiguous, Holds
    <3> QED
      BY <1>1, <2>6, <3>1, <3>2 DEF Contiguous, HandedOver, Holds
  <2> QED
    BY <1>1, <2>1, <2>7, <2>9, <2>10, <2>11 DEF Inv, Framed
<1> QED
  BY <1>2, <1>3

\* recv_buf full of what is no data frame; nothing is received from then on.
LEMMA AllocUnsetInv == Inv /\ AllocUnset => Inv'
<1> SUFFICES ASSUME Inv, AllocUnset PROVE Inv'
  OBVIOUS
<1>1. /\ UNCHANGED <<buffers, is_ws_shake, conn, reading, read, delivered, miscounted>>
      /\ pc' = "undefined" /\ Spills
      /\ conn \in {"open", "closing", "closed"} /\ reading \in BOOLEAN
  BY DEF AllocUnset, SizeSet, Inv, TypeOK
<1>2. is_ws_shake
  <2>1. recved >= RECV_LEN /\ is_ws_shake \in BOOLEAN
    BY <1>1 DEF Spills, Inv, TypeOK
  <2>2. ASSUME ~is_ws_shake PROVE FALSE
    <3>1. recved = read /\ read < Shake /\ read \in Nat
      BY <2>2, ReadType DEF Inv, Shaking
    <3> QED
      BY <2>1, <3>1, SizeFacts
  <2> QED
    BY <2>2
<1> QED
  BY <1>1, <1>2, SameDataInv

LEMMA ClosedInv == Inv /\ Closed => Inv'
<1> SUFFICES ASSUME Inv, Closed PROVE Inv'
  OBVIOUS
<1>1. /\ UNCHANGED <<buffers, is_ws_shake, pc, read, delivered, miscounted>>
      /\ conn' = "closed" /\ reading' = FALSE /\ pc = "poll"
      /\ is_ws_shake /\ HasHeader(Data) => PkgSize(Data) > recved
  BY DEF Closed, Inv, NoneComplete
<1> QED
  BY <1>1, SameDataInv

LEMMA StutterInv == Inv /\ UNCHANGED vars => Inv'
<1> SUFFICES ASSUME Inv, UNCHANGED vars PROVE Inv'
  OBVIOUS
<1>1. /\ UNCHANGED <<buffers, is_ws_shake, conn, reading, pc, read, delivered, miscounted>>
      /\ conn \in {"open", "closing", "closed"} /\ reading \in BOOLEAN
      /\ pc \in {"poll", "parse", "undefined"}
      /\ ~is_ws_shake => pc = "poll"
      /\ is_ws_shake /\ pc = "poll" /\ HasHeader(Data) => PkgSize(Data) > recved
  BY DEF vars, Inv, TypeOK, Shaking, NoneComplete
<1> QED
  BY <1>1, SameDataInv

LEMMA StepInv == Inv /\ [Next]_vars => Inv'
<1> SUFFICES ASSUME Inv, [Next]_vars PROVE Inv'
  OBVIOUS
<1>1. ASSUME NEW n \in 0 .. MaxRead, Receive(n) PROVE Inv'
  <2>1. n \in Nat
    BY <1>1
  <2> QED
    BY <1>1, <2>1, ReadShakeInv, ReadFramesInv DEF Receive
<1>2. CASE AllocUnset
  BY <1>2, AllocUnsetInv
<1>3. CASE ReadEnd
  BY <1>3, ReadEndInv
<1>4. CASE Parse
  BY <1>4, ParseFrameInv, ParseCloseInv, ParseEndInv DEF Parse
<1>5. CASE Closed
  BY <1>5, ClosedInv
<1>6. CASE Gone \/ UNCHANGED vars
  BY <1>6, StutterInv DEF Gone
<1> QED
  BY <1>1, <1>2, <1>3, <1>4, <1>5, <1>6 DEF Next

LEMMA Invariance == Spec => []Inv
<1>1. Init => Inv
  BY InitInv
<1>2. Inv /\ [Next]_vars => Inv'
  BY StepInv
<1> QED
  BY <1>1, <1>2, PTL DEF Spec

\* The buffers keep their sizes and bytes, recved stays within the buffer in use
\* even when its low byte has been cleared, and a heap block has the size its
\* header gave it (netbus.cpp:95-144, 153-187).
THEOREM WsTypes == Spec => []TypeOK
<1>1. Inv => TypeOK
  BY DEF Inv
<1> QED
  BY <1>1, Invariance, PTL
-----------------------------------------------------------------------------
(* The channel.                                                             *)

\* The frames before the first close frame are an initial part of the frames.
LEMMA BeforeCloseInterval == \E n \in Nat : BeforeClose = 1 .. n
<1> DEFINE T == {i \in Nat : i + 1 \notin BeforeClose}
<1>1. Len(Frames) \in Nat
  BY WireFacts
<1>2. T \subseteq Nat /\ T # {}
  <2>1. Len(Frames) + 1 \notin BeforeClose
    BY <1>1 DEF BeforeClose
  <2> QED
    BY <1>1, <2>1
<1>3. PICK n \in T : \A y \in T : ~(<<y, n>> \in OpToRel(<, Nat))
  <2> HIDE DEF T
  <2> QED
    BY <1>2, NatLessThanWellFounded, WFMin
<1>4. n \in Nat /\ n + 1 \notin BeforeClose
  BY <1>3
<1>5. \A y \in 0 .. n - 1 : y + 1 \in BeforeClose
  <2> TAKE y \in 0 .. n - 1
  <2>1. y \in Nat /\ <<y, n>> \in OpToRel(<, Nat)
    BY <1>4 DEF OpToRel
  <2>2. y \notin T
    BY <1>3, <2>1
  <2> QED
    BY <2>1, <2>2
<1>6. \A i \in 1 .. n : i \in BeforeClose
  <2> TAKE i \in 1 .. n
  <2>1. i - 1 \in 0 .. n - 1 /\ (i - 1) + 1 = i
    BY <1>4
  <2> QED
    BY <1>5, <2>1
<1>7. \A i \in BeforeClose : i \in 1 .. n
  <2> TAKE i \in BeforeClose
  <2>1. i \in 1 .. Len(Frames) /\ \A j \in 1 .. i : Frames[j].op # CLOSE
    BY DEF BeforeClose
  <2>2. ASSUME i > n PROVE FALSE
    <3>1. n + 1 \in 1 .. i /\ n + 1 \in 1 .. Len(Frames)
      BY <1>1, <1>4, <2>1, <2>2
    <3>2. \A j \in 1 .. n + 1 : Frames[j].op # CLOSE
      BY <1>4, <2>1, <3>1
    <3> QED
      BY <1>4, <3>1, <3>2 DEF BeforeClose
  <2> QED
    BY <1>4, <2>1, <2>2
<1>8. BeforeClose = 1 .. n
  BY <1>6, <1>7
<1> QED
  BY <1>4, <1>8

\* However the kernel cuts the handshake and the frames into reads, on_recv_client_cmd
\* is given the bodies the peer masked, whole, in order and unmasked once, and
\* nothing from a close frame on, as long as recved has not been overwritten
\* (netbus.cpp:95-144, 153-187, 272-286; ws_protocol.cpp:116-165).
THEOREM WsImplementsChannel == Spec => ImplementsChannel
<1>1. Init => Channel!Init
  BY DEF Init, Channel!Init
<1>2. Inv /\ [Next]_vars => [Channel!Next]_<<delivered, miscounted>>
  <2> SUFFICES ASSUME Inv, [Next]_vars PROVE [Channel!Next]_<<delivered, miscounted>>
    OBVIOUS
  <2>0. miscounted \in BOOLEAN /\ miscounted' \in BOOLEAN
    BY StepInv DEF Inv, TypeOK
  <2>1. ASSUME NEW n \in 0 .. MaxRead, Receive(n)
        PROVE  [Channel!Next]_<<delivered, miscounted>>
    <3>1. delivered' = delivered /\ (miscounted => miscounted')
      BY <2>1 DEF Receive, ReadShake, ReadFrames, Fetch
    <3> QED
      BY <2>0, <3>1 DEF Channel!Next, Channel!LoseCount
  <2>2. ASSUME NEW ok \in BOOLEAN, ParseFrame(ok)
        PROVE  [Channel!Next]_<<delivered, miscounted>>
    <3>1. miscounted' = miscounted
      BY <2>2 DEF ParseFrame
    <3>2. CASE miscounted
      BY <3>1, <3>2 DEF Channel!Next
    <3>3. CASE ~miscounted
      <4> DEFINE M == [i \in BeforeClose |-> Frames[i].body]
      <4>1. /\ At \in 1 .. Len(Frames) /\ Frames[At].op # CLOSE
            /\ delivered' = Append(delivered, Frames[At].body)
            /\ Len(delivered) \in Nat
        BY <2>2, <3>3, Handed
      <4>2. HandedOver
        BY <2>2, <3>3, Handed DEF Inv, Framed
      <4>3. \A j \in 1 .. At : Frames[j].op # CLOSE
        BY <4>1, <4>2 DEF HandedOver, At
      <4>4. At \in BeforeClose
        BY <4>1, <4>3 DEF BeforeClose
      <4>5. PICK n \in Nat : BeforeClose = 1 .. n
        BY BeforeCloseInterval
      <4>6. Len(M) = n
        BY <4>5
      <4>7. Len(delivered) < Len(M) /\ M[Len(delivered) + 1] = Frames[At].body
        BY <4>1, <4>4, <4>5, <4>6 DEF At
      <4> HIDE DEF M
      <4>8. Channel!Hand
        BY <3>1, <3>3, <4>1, <4>7 DEF Channel!Hand, M
      <4> QED
        BY <4>8 DEF Channel!Next
    <3> QED
      BY <2>0, <3>2, <3>3
  <2>3. CASE AllocUnset \/ ReadEnd \/ ParseClose \/ ParseEnd \/ Closed \/ Gone \/ UNCHANGED vars
    BY <2>3 DEF AllocUnset, ReadEnd, ParseClose, ParseEnd, Closed, Gone, vars
  <2> QED
    BY <2>1, <2>2, <2>3 DEF Next, Parse
<1> QED
  BY Invariance, <1>1, <1>2, PTL DEF Spec, ImplementsChannel, Channel!Spec
-----------------------------------------------------------------------------
(* What tcp_alloc_cb gives the kernel.                                      *)

\* There is room for a read whenever libuv asks for a buffer.
RoomToRead == Polled /\ SizeSet => Room > 0

\* netbus.cpp:153-187. The loop never returns to the event loop with a buffer
\* that is full of a complete frame, so no read is given a buffer of no bytes,
\* which libuv would report as an error and the session would be closed.
THEOREM WsRoomToRead == Spec => []RoomToRead
<1>1. Inv => RoomToRead
  <2> SUFFICES ASSUME Inv, Polled, SizeSet PROVE Room > 0
    BY DEF RoomToRead
  <2>1. TypeOK /\ recved \in Nat
    BY DataType DEF Inv
  <2>2. CASE recved < RECV_LEN
    BY <2>1, <2>2, SizeFacts DEF Room
  <2>3. CASE ~(recved < RECV_LEN)
    <3>1. is_ws_shake /\ recved >= RECV_LEN
      BY <2>1, <2>3, SizeFacts DEF Inv, Shaking
    <3>2. AllocSize \in Nat /\ AllocSize > recved
      BY <3>1, AllocFacts
    <3>3. Room = AllocSize - recved
      BY <2>3 DEF Room
    <3> HIDE DEF Room, AllocSize
    <3> QED
      BY <2>1, <3>2, <3>3
  <2> QED
    BY <2>2, <2>3
<1> QED
  BY <1>1, Invariance, PTL

\* A close frame is what the loop stands at when a block of an unset size is made.
UnsetBehindClose ==
    pc = "undefined" /\ ~miscounted => At \in 1 .. Len(Frames) /\ Frames[At].op = CLOSE

\* netbus.cpp:105-109, 165-173; ws_protocol.cpp:118-134. From a peer that sends
\* nothing but data frames and close frames, tcp_alloc_cb takes a size that
\* read_ws_header did not set only for data that follows a close frame, which the
\* loop leaves at the front of recv_buf, unless recved has been overwritten before.
THEOREM WsUnsetBehindClose == Spec => []UnsetBehindClose
<1>1. Init => UnsetBehindClose
  BY DEF Init, UnsetBehindClose
<1>2. ASSUME Inv, UnsetBehindClose, [Next]_vars PROVE UnsetBehindClose'
  <2>1. CASE AllocUnset
    <3>1. /\ pc = "poll" /\ recved >= RECV_LEN /\ long_pkg_size = 0 /\ ~HasHeader(recv_buf)
          /\ delivered' = delivered /\ miscounted' = miscounted
      BY <2>1 DEF AllocUnset, Polled, SizeSet, Spills
    <3>2. ASSUME ~miscounted
          PROVE  At \in 1 .. Len(Frames) /\ Frames[At].op = CLOSE
      <4>1. /\ TypeOK /\ recved \in Nat /\ recved >= 4 /\ recved > 0 /\ Data = recv_buf
        <5>1. RECV_LEN \in Nat /\ RECV_LEN >= 4
          BY WsAssumption
        <5>2. TypeOK /\ recved \in Nat
          BY <1>2, DataType DEF Inv
        <5> QED
          BY <3>1, <5>1, <5>2 DEF Data
      <4>2. is_ws_shake
        <5>1. ASSUME ~is_ws_shake PROVE FALSE
          <6>1. recved = read /\ read < Shake
            BY <1>2, <5>1 DEF Inv, Shaking
          <6> QED
            BY <3>1, <4>1, <6>1, SizeFacts
        <5> QED
          BY <5>1
      <4>3. /\ At \in 1 .. Len(Frames)
            /\ \A i \in 0 .. recved - 1 :
                   i < Len(Encode(Frames[At])) => Data[i] = Encode(Frames[At])[i + 1]
        BY <1>2, <3>2, <4>1, <4>2, FrameBytes
      <4> DEFINE f == Frames[At]
      <4>4. f \in Frame /\ Len(f.body) < BYTE * BYTE /\ Len(f.body) \in Nat
        BY <4>3, FrameType
      <4>5. 0 < Len(Encode(f)) /\ Encode(f)[1] = f.op
        <5> DEFINE len  == Len(f.body)
                   head == IF len < SHORT THEN 6 ELSE 8
        <5>1. Len(Encode(f)) = head + len /\ Encode(f)[1] = f.op
          BY <4>4, EncodeFacts
        <5>2. len \in Nat
          BY <4>4
        <5> HIDE DEF len
        <5>3. head + len > 0
          BY <5>2
        <5> QED
          BY <5>1, <5>3 DEF len
      <4>6. Data[0] = f.op
        <5>1. 0 \in 0 .. recved - 1 /\ 0 + 1 = 1
          BY <4>1
        <5> QED
          BY <4>3, <4>5, <5>1
      <4>7. f.op \notin {TEXT, BINARY}
        BY <3>1, <4>1, <4>6 DEF HasHeader
      <4> QED
        BY <4>3, <4>4, <4>7 DEF Frame
    <3> QED
      BY <3>1, <3>2 DEF UnsetBehindClose, At
  <2>2. ASSUME NEW n \in 0 .. MaxRead, Receive(n) PROVE UnsetBehindClose'
    BY <2>2 DEF Receive, ReadShake, ReadFrames, Fetch, Polled, UnsetBehindClose
  <2>3. CASE ReadEnd \/ Closed
    BY <2>3 DEF ReadEnd, Polled, Closed, UnsetBehindClose
  <2>4. CASE Parse
    BY <2>4 DEF Parse, ParseFrame, ParseClose, ParseEnd, UnsetBehindClose
  <2>5. CASE Gone \/ UNCHANGED vars
    BY <1>2, <2>5 DEF Gone, vars, UnsetBehindClose, At
  <2> QED
    BY <1>2, <2>1, <2>2, <2>3, <2>4, <2>5 DEF Next
<1> QED
  BY <1>1, <1>2, Invariance, PTL DEF Spec
=============================================================================
