--------------------------- MODULE TcpStreamProofs ---------------------------
(***************************************************************************)
(* The receive path delivers the peer's packages in order, for every       *)
(* stream, buffer size and way the kernel cuts the stream into reads,      *)
(* until a read clears the low byte of recved.                             *)
(***************************************************************************)
EXTENDS TcpStream, TLAPS

\* The loop only returns to the event loop with an incomplete package.
NoneComplete == pc = "poll" => recved < HeadSize \/ ReadHeader(Data) > recved

\* A heap block was sized by the header that is still at its front, and holds
\* more than recv_buf could.
LongSized ==
    long_pkg_size > 0 => recved >= RECV_LEN /\ ReadHeader(long_pkg) = long_pkg_size

\* The data is the stretch of the stream from `consumed' to `read'.
Contiguous ==
    /\ recved = read - consumed
    /\ \A i \in 0 .. recved - 1 : Data[i] = consumed + i

\* The loop stands at a package boundary, behind the bodies it has delivered.
AtBoundary ==
    /\ Len(delivered) < Len(Start)
    /\ consumed = Start[Len(delivered) + 1]
    /\ \A k \in 1 .. Len(delivered) : delivered[k] = Bodies[k]

Framed == ~miscounted => Contiguous /\ AtBoundary

Inv == TypeOK /\ NoneComplete /\ LongSized /\ Framed
-----------------------------------------------------------------------------
LEMMA StreamFacts ==
    /\ Total \in Nat
    /\ MaxPkg \in Nat /\ RECV_LEN \in 2 .. MaxPkg
BY StreamAssumption DEF Total, MaxPkg

LEMMA StartFacts ==
    /\ Len(Start) \in Nat \ {0} /\ Start[1] = 0 /\ Total = Start[Len(Start)]
    /\ \A k \in 1 .. Len(Start) : Start[k] \in Nat
BY StreamAssumption DEF Total

LEMMA LowByteFact == recved \in Nat => LowByte \in 0 .. recved
BY StreamAssumption DEF LowByte

LEMMA ByteType == \A p \in Position : ByteAt(p) \in 0 .. BYTE - 1
BY StreamAssumption, StreamFacts DEF Position, ByteAt, NUL

LEMMA LengthType ==
    ASSUME NEW a \in 0 .. BYTE - 1, NEW b \in 0 .. BYTE - 1
    PROVE  a + BYTE * b \in 0 .. MaxPkg
<1>1. BYTE \in Nat /\ BYTE >= 2 /\ a \in Nat /\ b \in Nat
  BY StreamAssumption
<1>2. \A x, y \in Nat : x <= y => BYTE * x \in Nat /\ BYTE * x <= BYTE * y
  BY <1>1
<1>3. BYTE * b \in Nat /\ BYTE * b <= BYTE * (BYTE - 1)
  BY <1>1, <1>2
<1>4. BYTE * (BYTE - 1) = BYTE * BYTE - BYTE /\ BYTE * BYTE \in Nat
  BY <1>1
<1> HIDE DEF MaxPkg
<1> DEFINE c == BYTE * b
           d == BYTE * BYTE
<1>5. c \in Nat /\ c <= d - BYTE /\ d \in Nat
  BY <1>3, <1>4
<1>6. MaxPkg = d - 1
  BY DEF MaxPkg
<1> HIDE DEF c, d
<1>7. a + c \in 0 .. MaxPkg
  BY <1>1, <1>5, <1>6
<1> QED
  BY <1>7 DEF c

LEMMA HeaderType ==
    /\ recv_buf \in [RecvIdx -> Position] => ReadHeader(recv_buf) \in 0 .. MaxPkg
    /\ long_pkg \in [LongIdx -> Position] => ReadHeader(long_pkg) \in 0 .. MaxPkg
<1>1. 0 \in RecvIdx /\ 1 \in RecvIdx
  BY StreamFacts DEF RecvIdx
<1>2. 0 \in LongIdx /\ 1 \in LongIdx
  BY StreamFacts DEF LongIdx
<1> QED
  BY <1>1, <1>2, ByteType, LengthType DEF ReadHeader

LEMMA InitInv == Init => Inv
<1> SUFFICES ASSUME Init PROVE Inv
  OBVIOUS
<1> USE StreamFacts DEF Init
<1>0. NUL \in Position
  BY DEF Position, NUL
<1>1. TypeOK
  <2>1. recv_buf \in [RecvIdx -> Position] /\ long_pkg \in [LongIdx -> Position]
    BY <1>0
  <2>2. delivered \in Seq(Seq(Position))
    OBVIOUS
  <2>3. /\ recved \in Nat /\ long_pkg_size \in 0 .. MaxPkg /\ read \in 0 .. Total
        /\ consumed \in Nat /\ recved <= IF long_pkg_size = 0 THEN RECV_LEN ELSE long_pkg_size
    OBVIOUS
  <2>4. conn = "open" /\ reading \in BOOLEAN /\ pc = "poll" /\ miscounted \in BOOLEAN
    OBVIOUS
  <2> QED
    BY <2>1, <2>2, <2>3, <2>4 DEF TypeOK
<1>2. Contiguous /\ AtBoundary
  BY StartFacts DEF Contiguous, AtBoundary
<1> QED
  BY <1>1, <1>2 DEF Inv, NoneComplete, LongSized, Framed, HeadSize
-----------------------------------------------------------------------------
\* What tcp_alloc_cb leaves behind, in a state of the event loop: a block with
\* room, sized by the header at its front, which still holds the same data.
LEMMA AllocFacts ==
    ASSUME Inv, pc = "poll", recved >= RECV_LEN
    PROVE  /\ AllocLong \in [LongIdx -> Position]
           /\ AllocSize \in recved + 1 .. MaxPkg
           /\ ReadHeader(AllocLong) = AllocSize
           /\ \A i \in 0 .. recved - 1 : AllocLong[i] = Data[i]
<1> USE StreamFacts DEF Inv, TypeOK
<1>1. CASE long_pkg_size = 0
  <2> USE <1>1 DEF Spills, AllocLong, AllocSize, Data
  <2>1. recved = RECV_LEN
    OBVIOUS
  <2>2. AllocSize \in recved + 1 .. MaxPkg
    BY <2>1, HeaderType DEF NoneComplete, HeadSize
  <2>3. /\ AllocLong \in [LongIdx -> Position]
        /\ \A i \in 0 .. recved - 1 : AllocLong[i] = Data[i]
    BY <2>1 DEF RecvIdx, LongIdx, Position, NUL
  <2>4. ReadHeader(AllocLong) = ReadHeader(recv_buf)
    <3>1. 0 \in LongIdx /\ 1 \in LongIdx
      BY DEF LongIdx
    <3> QED
      BY <3>1, <2>1 DEF ReadHeader
  <2> QED
    BY <2>2, <2>3, <2>4
<1>2. CASE long_pkg_size > 0
  BY <1>2 DEF Spills, AllocLong, AllocSize, Data, NoneComplete, LongSized, HeadSize
<1> QED
  BY <1>1, <1>2

LEMMA RoomFact == Inv => RoomToRead
<1> SUFFICES ASSUME Inv, pc = "poll" PROVE Room > 0
  BY DEF RoomToRead
<1>1. CASE recved < RECV_LEN
  BY <1>1, StreamFacts DEF Inv, TypeOK, Room
<1>2. CASE recved >= RECV_LEN
  BY <1>2, AllocFacts, StreamFacts DEF Inv, TypeOK, Room
<1> QED
  BY <1>1, <1>2, StreamFacts DEF Inv, TypeOK

\* A read leaves the data in front of it alone and stores the next n bytes.
LEMMA FillFacts ==
    ASSUME NEW m \in Nat, NEW buf \in [0 .. m - 1 -> Position], NEW n \in Nat,
           recved \in Nat, recved + n <= m, read \in Nat, read + n <= Total
    PROVE  /\ Fill(buf, n) \in [0 .. m - 1 -> Position]
           /\ \A i \in 0 .. recved - 1 : Fill(buf, n)[i] = buf[i]
           /\ \A i \in recved .. recved + n - 1 : Fill(buf, n)[i] = read + (i - recved)
<1> USE StreamFacts
<1> DEFINE new == [i \in 0 .. m - 1 |->
                      IF recved <= i /\ i < recved + n THEN read + (i - recved)
                      ELSE IF i = recved + n THEN NUL ELSE buf[i]]
<1>1. Fill(buf, n) = new
  BY DEF Fill
<1>2. \A i \in 0 .. m - 1 : new[i] \in Position
  BY DEF Position, NUL
<1>3. /\ \A i \in 0 .. recved - 1 : new[i] = buf[i]
      /\ \A i \in recved .. recved + n - 1 : new[i] = read + (i - recved)
  OBVIOUS
<1> QED
  BY <1>1, <1>2, <1>3

\* Data that continues the stretch of the stream in front of it.
LEMMA FillContiguous ==
    ASSUME NEW m \in Nat, NEW buf \in [0 .. m - 1 -> Position], NEW n \in Nat,
           recved \in Nat, recved + n <= m, read \in Nat, read + n <= Total,
           consumed \in Nat, recved = read - consumed,
           \A i \in 0 .. recved - 1 : buf[i] = consumed + i
    PROVE  \A i \in 0 .. recved + n - 1 : Fill(buf, n)[i] = consumed + i
<1> TAKE i \in 0 .. recved + n - 1
<1>1. CASE i < recved
  BY <1>1, FillFacts
<1>2. CASE i >= recved
  BY <1>2, FillFacts
<1> QED
  BY <1>1, <1>2

LEMMA ReceiveInv ==
    ASSUME Inv, NEW n \in 0 .. MaxPkg, Receive(n) PROVE Inv'
<1> USE StreamFacts DEF Inv
<1>0. /\ read' = read + n /\ read + n <= Total /\ pc = "poll" /\ pc' = "parse"
      /\ n \in Nat /\ n <= Room
      /\ UNCHANGED <<conn, reading, delivered, consumed>>
  BY DEF Receive, Room, TypeOK, AllocSize
<1>t. /\ recved \in Nat /\ read \in Nat /\ consumed \in Nat
      /\ recv_buf \in [0 .. RECV_LEN - 1 -> Position] /\ RECV_LEN \in Nat
  BY DEF TypeOK, RecvIdx
<1>1. CASE recved < RECV_LEN
  <2>1. /\ long_pkg_size = 0
        /\ recved + n <= RECV_LEN
        /\ recv_buf' = Fill(recv_buf, n)
        /\ UNCHANGED <<long_pkg, long_pkg_size>>
    BY <1>0, <1>1 DEF Receive, LongSized, TypeOK, Room
  <2>2. recv_buf' \in [RecvIdx -> Position]
    BY <1>0, <1>t, <2>1, FillFacts DEF RecvIdx
  <2>3. /\ recved' \in 0 .. RECV_LEN /\ miscounted' \in BOOLEAN
        /\ ~miscounted' => ~miscounted /\ recved' = recved + n
    <3>1. LowByte \in 0 .. recved
      BY <1>t, LowByteFact
    <3>2. /\ recved' = n + IF LowByteCleared(n) THEN recved - LowByte ELSE recved
          /\ miscounted' = (miscounted \/ (LowByteCleared(n) /\ LowByte # 0))
      BY DEF Receive
    <3>2a. miscounted' \in BOOLEAN
      BY <3>2
    <3>3. CASE LowByteCleared(n)
      <4>1. recved' = n + (recved - LowByte) /\ (~miscounted' => ~miscounted /\ LowByte = 0)
        BY <3>2, <3>3
      <4> QED
        BY <4>1, <3>1, <3>2a, <1>0, <1>t, <2>1
    <3>4. CASE ~LowByteCleared(n)
      <4>1. recved' = n + recved /\ (~miscounted' => ~miscounted)
        BY <3>2, <3>4
      <4> QED
        BY <4>1, <3>2a, <1>0, <1>t, <2>1
    <3> QED
      BY <3>3, <3>4
  <2>4. TypeOK'
    BY <1>0, <2>1, <2>2, <2>3 DEF TypeOK
  <2>5. ASSUME ~miscounted' PROVE Contiguous' /\ AtBoundary'
    <3>1. ~miscounted /\ recved' = recved + n /\ Contiguous /\ AtBoundary
      BY <2>5, <2>3 DEF Framed
    <3>2. \A i \in 0 .. recved + n - 1 : recv_buf'[i] = consumed + i
      BY <1>0, <1>t, <2>1, <3>1, FillContiguous DEF Contiguous, Data
    <3>3. Contiguous'
      BY <1>0, <1>t, <2>1, <3>1, <3>2 DEF Contiguous, Data
    <3> QED
      BY <1>0, <3>1, <3>3 DEF AtBoundary
  <2> QED
    BY <1>0, <2>1, <2>4, <2>5 DEF NoneComplete, LongSized, Framed
<1>2. CASE recved >= RECV_LEN
  <2>0. /\ AllocLong \in [LongIdx -> Position]
        /\ AllocSize \in recved + 1 .. MaxPkg
        /\ ReadHeader(AllocLong) = AllocSize
        /\ \A i \in 0 .. recved - 1 : AllocLong[i] = Data[i]
    BY <1>0, <1>2, AllocFacts
  <2>1. /\ recved + n <= AllocSize
        /\ recved' = recved + n
        /\ long_pkg_size' = AllocSize /\ long_pkg' = Fill(AllocLong, n)
        /\ UNCHANGED <<recv_buf, miscounted>>
    BY <1>0, <1>2, <2>0 DEF Receive, Room, LowByteCleared, TypeOK
  <2> DEFINE long == AllocLong
             new == Fill(long, n)
  <2>2. /\ new \in [LongIdx -> Position]
        /\ \A i \in 0 .. recved - 1 : new[i] = long[i]
    <3>1. recved + n <= MaxPkg
      BY <1>0, <1>t, <2>0, <2>1
    <3> HIDE DEF long
    <3> QED
      BY <1>0, <1>t, <2>0, <3>1, FillFacts DEF LongIdx, long
  <2>4. TypeOK'
    BY <1>0, <2>0, <2>1, <2>2 DEF TypeOK
  <2>5. ReadHeader(long_pkg)' = long_pkg_size'
    <3>1. new[0] = long[0] /\ new[1] = long[1]
      BY <1>2, <2>2 DEF TypeOK
    <3> QED
      BY <3>1, <2>0, <2>1 DEF ReadHeader
  <2>6. ASSUME ~miscounted' PROVE Contiguous' /\ AtBoundary'
    <3>1. ~miscounted /\ Contiguous /\ AtBoundary
      BY <2>6, <2>1 DEF Framed
    <3>2. \A i \in 0 .. recved + n - 1 : new[i] = consumed + i
      <4>1. \A i \in 0 .. recved - 1 : long[i] = consumed + i
        BY <2>0, <3>1 DEF Contiguous
      <4>2. long \in [0 .. MaxPkg - 1 -> Position] /\ recved + n <= MaxPkg
        BY <1>0, <1>t, <2>0, <2>1 DEF LongIdx
      <4>3. recved = read - consumed
        BY <3>1 DEF Contiguous
      <4> HIDE DEF long
      <4> QED
        BY <1>0, <1>t, <4>1, <4>2, <4>3, FillContiguous
    <3>3. Data' = new
      BY <2>0, <2>1 DEF Data, TypeOK
    <3>4. Contiguous'
      BY <1>0, <1>t, <2>1, <3>1, <3>2, <3>3 DEF Contiguous
    <3> QED
      BY <1>0, <3>1, <3>4 DEF AtBoundary
  <2> QED
    BY <1>0, <1>2, <2>0, <2>1, <2>4, <2>5, <2>6 DEF TypeOK, NoneComplete, LongSized, Framed
<1> QED
  BY <1>1, <1>2 DEF TypeOK
LEMMA ReadEndInv ==
    ASSUME Inv, ReadEnd PROVE Inv'
<1> USE StreamFacts DEF Inv
<1>0. /\ pc = "poll" /\ UNCHANGED <<recv_buf, recved, pc, read, delivered, consumed, miscounted>>
      /\ reading' = FALSE /\ conn' \in {"open", "closing", "closed"}
  BY DEF ReadEnd, Close, TypeOK
<1>1. CASE recved < RECV_LEN
  <2>1. UNCHANGED <<long_pkg, long_pkg_size>>
    BY <1>1 DEF ReadEnd
  <2>2. TypeOK'
    BY <1>0, <2>1 DEF TypeOK
  <2>3. Data' = Data
    BY <1>0, <2>1 DEF Data
  <2> QED
    BY <1>0, <2>1, <2>2, <2>3 DEF NoneComplete, LongSized, Framed, Contiguous,
       AtBoundary, ReadHeader
<1>2. CASE recved >= RECV_LEN
  <2>0. /\ AllocLong \in [LongIdx -> Position]
        /\ AllocSize \in recved + 1 .. MaxPkg
        /\ ReadHeader(AllocLong) = AllocSize
        /\ \A i \in 0 .. recved - 1 : AllocLong[i] = Data[i]
    BY <1>0, <1>2, AllocFacts
  <2>1. long_pkg' = AllocLong /\ long_pkg_size' = AllocSize
    BY <1>2 DEF ReadEnd, TypeOK
  <2>2. Data' = AllocLong
    BY <2>0, <2>1 DEF Data, TypeOK
  <2>3. TypeOK'
    <3>1. /\ long_pkg_size' \in 0 .. MaxPkg /\ long_pkg' \in [LongIdx -> Position]
          /\ recved' <= IF long_pkg_size' = 0 THEN RECV_LEN ELSE long_pkg_size'
      BY <1>0, <2>0, <2>1 DEF TypeOK
    <3> QED
      BY <1>0, <3>1 DEF TypeOK
  <2>4. NoneComplete' /\ LongSized'
    BY <1>0, <1>2, <2>0, <2>1, <2>2 DEF TypeOK, NoneComplete, LongSized, ReadHeader
  <2>5. Framed'
    BY <1>0, <2>0, <2>2 DEF Framed, Contiguous, AtBoundary
  <2> QED
    BY <2>3, <2>4, <2>5
<1> QED
  BY <1>1, <1>2 DEF TypeOK
-----------------------------------------------------------------------------
\* A long package is complete when the block is full.
LEMMA LongComplete ==
    ASSUME Inv, HasPackage, long_pkg_size > 0
    PROVE  ReadHeader(Data) = recved
BY StreamFacts DEF Inv, TypeOK, LongSized, HasPackage, Data

\* A header of bytes that are the peer's own.
LEMMA HeaderOf ==
    ASSUME NEW p \in Nat, Data[0] = p, Data[1] = p + 1
    PROVE  ReadHeader(Data) = Stream[p] + BYTE * Stream[p + 1]
<1>1. p # NUL /\ p + 1 # NUL
  BY DEF NUL
<1>2. ByteAt(p) = Stream[p] /\ ByteAt(p + 1) = Stream[p + 1]
  BY <1>1 DEF ByteAt
<1> QED
  BY <1>2 DEF ReadHeader

\* The header at a package boundary is the length the peer wrote there.
LEMMA HeaderAtBoundary ==
    ASSUME Inv, ~miscounted, HasPackage
    PROVE  LET k == Len(delivered) + 1 IN
           /\ k \in Packages
           /\ consumed = Start[k]
           /\ ReadHeader(Data) = Start[k + 1] - Start[k]
<1> DEFINE k == Len(delivered) + 1
<1>1. TypeOK /\ Contiguous /\ AtBoundary
  BY DEF Inv, Framed
<1>2. /\ consumed = Start[k] /\ k \in 1 .. Len(Start)
      /\ recved >= 2 /\ read <= Total /\ recved = read - consumed
      /\ Len(delivered) \in Nat /\ recved \in Nat /\ read \in Nat /\ consumed \in Nat
  BY <1>1, StartFacts DEF TypeOK, Contiguous, AtBoundary, HasPackage, HeadSize
<1>3. k \in Packages
  <2>1. k # Len(Start)
    BY <1>2, StartFacts
  <2> QED
    BY <1>2, <2>1, StartFacts DEF Packages
<1>4. Data[0] = consumed /\ Data[1] = consumed + 1
  <2>1. \A i \in 0 .. recved - 1 : Data[i] = consumed + i
    BY <1>1 DEF Contiguous
  <2>2. 0 \in 0 .. recved - 1 /\ 1 \in 0 .. recved - 1 /\ consumed + 0 = consumed
    BY <1>2
  <2> QED
    BY <2>1, <2>2
<1>5. ReadHeader(Data) = Stream[consumed] + BYTE * Stream[consumed + 1]
  BY <1>2, <1>4, HeaderOf
<1>6. Start[k + 1] - Start[k] = Stream[Start[k]] + BYTE * Stream[Start[k] + 1]
  BY <1>3, StreamAssumption
<1> QED
  BY <1>2, <1>3, <1>5, <1>6

LEMMA BodyType ==
    ASSUME Inv, HasPackage, ReadHeader(Data) >= HeadSize
    PROVE  Body(ReadHeader(Data)) \in Seq(Position)
<1> USE StreamFacts DEF Inv
<1> DEFINE size == ReadHeader(Data)
<1>1. size \in Nat /\ size <= recved /\ size >= 2 /\ recved \in Nat
  BY HeaderType DEF TypeOK, Data, HasPackage, HeadSize
<1>2. \A i \in 0 .. recved - 1 : Data[i] \in Position
  BY DEF TypeOK, Data, RecvIdx, LongIdx
<1> HIDE DEF size
<1>3. \A i \in 1 .. size - 2 : Data[i + 1] \in Position
  BY <1>1, <1>2
<1>4. Body(size) = [i \in 1 .. size - 2 |-> Data[i + 1]]
  BY <1>1 DEF Body, HeadSize
<1>5. Body(size) \in Seq(Position)
  BY <1>1, <1>3, <1>4
<1> QED
  BY <1>5 DEF size

\* What is left after a package has been cut off is what followed it.
LEMMA CutFacts ==
    ASSUME Inv, HasPackage, NEW size \in Nat, size = ReadHeader(Data), Cut(size)
    PROVE  /\ recv_buf' \in [RecvIdx -> Position]
           /\ long_pkg' \in [LongIdx -> Position]
           /\ recved' = recved - size /\ recved' \in Nat
           /\ long_pkg_size' = 0 /\ recved' <= RECV_LEN
           /\ \A i \in 0 .. recved' - 1 : Data'[i] = Data[i + size]
<1> USE StreamFacts DEF Inv
<1>1. recved' = recved - size /\ size <= recved /\ recved \in Nat /\ recved' \in Nat
  BY DEF Cut, HasPackage, TypeOK
<1>2. CASE long_pkg_size = 0
  <2>1. /\ recv_buf' = Shift(recv_buf, size)
        /\ UNCHANGED <<long_pkg, long_pkg_size>>
        /\ recved <= RECV_LEN /\ Data = recv_buf
    BY <1>2 DEF Cut, TypeOK, Data
  <2>2. /\ recv_buf' \in [RecvIdx -> Position]
        /\ \A i \in 0 .. recved' - 1 : recv_buf'[i] = recv_buf[i + size]
    BY <1>1, <2>1 DEF Shift, TypeOK, RecvIdx
  <2> QED
    BY <1>1, <1>2, <2>1, <2>2 DEF Data, TypeOK
<1>3. CASE long_pkg_size > 0
  <2>1. recved' = 0
    BY <1>1, <1>3, LongComplete
  <2>2. long_pkg' = [i \in LongIdx |-> NUL] /\ long_pkg_size' = 0 /\ UNCHANGED recv_buf
    BY <1>3, <2>1 DEF Cut
  <2>3. NUL \in Position
    BY DEF NUL, Position
  <2> QED
    BY <1>1, <2>1, <2>2, <2>3 DEF TypeOK
<1> QED
  BY <1>2, <1>3 DEF TypeOK

LEMMA ParsePackageInv ==
    ASSUME Inv, NEW ok \in BOOLEAN, ParsePackage(ok)
    PROVE  /\ Inv'
           /\ \/ miscounted /\ miscounted'
              \/ /\ ~miscounted /\ UNCHANGED miscounted
                 /\ Len(delivered) < Len(Bodies)
                 /\ delivered' = Append(delivered, Bodies[Len(delivered) + 1])
<1> DEFINE size == ReadHeader(Data)
<1> USE StreamFacts DEF Inv
<1>0. /\ HasPackage /\ Cut(size) /\ consumed' = consumed + size
      /\ pc = "parse" /\ UNCHANGED <<reading, pc, read, miscounted>>
      /\ conn' \in {"open", "closing", "closed"}
      /\ IF size >= HeadSize THEN delivered' = Append(delivered, Body(size))
         ELSE delivered' = delivered
  BY DEF ParsePackage, Close, TypeOK
<1>1. size \in Nat /\ size <= recved
  BY <1>0, HeaderType DEF HasPackage, TypeOK, Data
<1>2. /\ recv_buf' \in [RecvIdx -> Position]
      /\ long_pkg' \in [LongIdx -> Position]
      /\ recved' = recved - size /\ recved' \in Nat
      /\ long_pkg_size' = 0 /\ recved' <= RECV_LEN
      /\ \A i \in 0 .. recved' - 1 : Data'[i] = Data[i + size]
  <2> HIDE DEF size
  <2> QED
    BY <1>0, <1>1, CutFacts DEF size
<1>3. delivered' \in Seq(Seq(Position))
  <2>1. CASE size >= HeadSize
    BY <1>0, <2>1, BodyType DEF TypeOK
  <2>2. CASE ~(size >= HeadSize)
    BY <1>0, <2>2 DEF TypeOK
  <2> QED
    BY <2>1, <2>2
<1>4. TypeOK'
  <2>1. consumed' \in Nat /\ long_pkg_size' \in 0 .. MaxPkg
    BY <1>0, <1>1, <1>2 DEF TypeOK
  <2> HIDE DEF size
  <2> QED
    BY <1>0, <1>2, <1>3, <2>1 DEF TypeOK
<1>5. NoneComplete' /\ LongSized'
  BY <1>0, <1>2 DEF NoneComplete, LongSized
<1>6. ASSUME ~miscounted
      PROVE  /\ Contiguous' /\ AtBoundary'
             /\ Len(delivered) < Len(Bodies)
             /\ delivered' = Append(delivered, Bodies[Len(delivered) + 1])
  <2> DEFINE k == Len(delivered) + 1
  <2>1. Contiguous /\ AtBoundary
    BY <1>6 DEF Framed
  <2>2. /\ k \in Packages /\ consumed = Start[k] /\ size = Start[k + 1] - Start[k]
    BY <1>0, <1>6, HeaderAtBoundary
  <2>3. /\ k \in 1 .. Len(Start) - 1 /\ Len(Bodies) = Len(Start) - 1
        /\ Start[k] \in Nat /\ Start[k + 1] \in Nat /\ Start[k] + 2 <= Start[k + 1]
    BY <2>2, StartFacts, StreamAssumption DEF Packages, Bodies
  <2>4. size >= HeadSize
    BY <2>2, <2>3 DEF HeadSize
  <2>5. Body(size) = Bodies[k]
    <3>1. \A i \in 1 .. size - 2 : Data[i + 1] = Start[k] + 2 + i - 1
      <4> TAKE i \in 1 .. size - 2
      <4>1. i + 1 \in 0 .. recved - 1
        BY <1>1 DEF TypeOK
      <4>2. Data[i + 1] = consumed + (i + 1)
        BY <2>1, <4>1 DEF Contiguous
      <4>3. consumed = Start[k] /\ Start[k] \in Nat
        BY <2>2, <2>3
      <4>4. i \in Int
        BY <1>1
      <4> HIDE DEF size, k
      <4> QED
        BY <4>2, <4>3, <4>4
    <3>2. Bodies[k] = [i \in 1 .. size - 2 |-> Start[k] + 2 + i - 1]
      BY <2>2 DEF Bodies, HeadSize
    <3>3. Body(size) = [i \in 1 .. size - 2 |-> Data[i + 1]]
      BY <1>1 DEF Body, HeadSize
    <3> HIDE DEF size, k
    <3> QED
      BY <3>1, <3>2, <3>3
  <2>6. delivered' = Append(delivered, Bodies[k])
    BY <1>0, <2>4, <2>5
  <2>7. Contiguous'
    <3>1. \A i \in 0 .. recved' - 1 : Data'[i] = consumed' + i
      <4> TAKE i \in 0 .. recved' - 1
      <4>1. i + size \in 0 .. recved - 1
        BY <1>1, <1>2 DEF TypeOK
      <4>2. Data[i + size] = consumed + (i + size)
        BY <2>1, <4>1 DEF Contiguous
      <4> QED
        BY <1>0, <1>1, <1>2, <4>2 DEF TypeOK
    <3> QED
      BY <1>0, <1>1, <1>2, <2>1, <3>1 DEF Contiguous, TypeOK
  <2>8. AtBoundary'
    <3>1. Len(delivered') = k /\ \A j \in 1 .. k : delivered'[j] = Bodies[j]
      BY <2>1, <2>6 DEF AtBoundary, TypeOK
    <3>2. consumed' = Start[k + 1]
      BY <1>0, <2>2, <2>3
    <3> QED
      BY <2>3, <3>1, <3>2 DEF AtBoundary
  <2> QED
    BY <2>3, <2>6, <2>7, <2>8
<1>7. Framed'
  BY <1>0, <1>6 DEF Framed
<1>8. miscounted \in BOOLEAN
  BY DEF TypeOK
<1> QED
  BY <1>0, <1>4, <1>5, <1>6, <1>7, <1>8
-----------------------------------------------------------------------------
LEMMA ParseEndInv ==
    ASSUME Inv, ParseEnd PROVE Inv'
<1>0. ~HasPackage /\ pc' = "poll" /\ UNCHANGED <<buffers, conn, reading, read, delivered, consumed, miscounted>>
  BY DEF ParseEnd
<1>1. /\ UNCHANGED <<recv_buf, recved, long_pkg, long_pkg_size>>
      /\ Data' = Data
  BY <1>0 DEF buffers, Data
<1>2. TypeOK' /\ LongSized' /\ Framed'
  BY <1>0, <1>1 DEF Inv, TypeOK, LongSized, Framed, Contiguous, AtBoundary, ReadHeader
<1>3. ReadHeader(Data) \in 0 .. MaxPkg
  BY HeaderType DEF Inv, TypeOK, Data
<1>4. NoneComplete'
  BY <1>0, <1>1, <1>3, StreamFacts DEF Inv, TypeOK, NoneComplete, HasPackage, HeadSize, ReadHeader
<1> QED
  BY <1>2, <1>4 DEF Inv

\* A step that changes neither the data nor what has been delivered.
LEMMA IdleInv ==
    ASSUME Inv, UNCHANGED <<buffers, pc, read, delivered, consumed, miscounted>>,
           conn' \in {"open", "closing", "closed"}, reading' \in BOOLEAN
    PROVE  Inv'
<1>1. /\ UNCHANGED <<recv_buf, recved, long_pkg, long_pkg_size>>
      /\ Data' = Data
  BY DEF buffers, Data
<1> QED
  BY <1>1 DEF Inv, TypeOK, NoneComplete, LongSized, Framed, Contiguous, AtBoundary, ReadHeader

LEMMA StepInv == Inv /\ [Next]_vars => Inv'
<1> SUFFICES ASSUME Inv, [Next]_vars PROVE Inv'
  OBVIOUS
<1>1. ASSUME NEW n \in 0 .. MaxPkg, Receive(n) PROVE Inv'
  BY <1>1, ReceiveInv
<1>2. CASE ReadEnd
  BY <1>2, ReadEndInv
<1>3. ASSUME NEW ok \in BOOLEAN, ParsePackage(ok) PROVE Inv'
  BY <1>3, ParsePackageInv
<1>4. CASE ParseEnd
  BY <1>4, ParseEndInv
<1>5. CASE Closed
  BY <1>5, IdleInv DEF Closed
<1>6. CASE Gone \/ UNCHANGED vars
  BY <1>6, IdleInv DEF Gone, vars, Inv, TypeOK
<1> QED
  BY <1>1, <1>2, <1>3, <1>4, <1>5, <1>6 DEF Next, Parse

\* netbus.cpp:50-89, 153-187, 252-292. The buffers keep their bounds, and the
\* event loop never polls without room to read into, for every stream, every
\* buffer size and every sequence of reads, a miscount included.
THEOREM RoomForever == Spec => [](TypeOK /\ RoomToRead)
<1>1. Inv => TypeOK /\ RoomToRead
  BY RoomFact DEF Inv
<1> QED
  BY InitInv, StepInv, <1>1, PTL DEF Spec

\* netbus.cpp:50-89, 153-187, 252-292. The services are given the bodies the
\* peer sent, in order and once, until a read clears the low byte of recved.
THEOREM StreamImplementsChannel == Spec => ImplementsChannel
<1>1. Init => Channel!Init
  BY DEF Init, Channel!Init
<1>2. Inv /\ [Next]_vars => [Channel!Next]_<<delivered, miscounted>>
  <2> SUFFICES ASSUME Inv, [Next]_vars PROVE [Channel!Next]_<<delivered, miscounted>>
    OBVIOUS
  <2>1. ASSUME NEW n \in 0 .. MaxPkg, Receive(n)
        PROVE  [Channel!Next]_<<delivered, miscounted>>
    <3>1. delivered' = delivered /\ (miscounted => miscounted')
      BY <2>1 DEF Receive
    <3>2. miscounted \in BOOLEAN /\ miscounted' \in BOOLEAN
      BY <2>1, ReceiveInv DEF Inv, TypeOK
    <3> QED
      BY <3>1, <3>2 DEF Channel!Next, Channel!LoseCount
  <2>2. ASSUME NEW ok \in BOOLEAN, ParsePackage(ok)
        PROVE  [Channel!Next]_<<delivered, miscounted>>
    BY <2>2, ParsePackageInv DEF Channel!Next, Channel!Hand
  <2>3. CASE ReadEnd \/ ParseEnd \/ Closed \/ Gone \/ UNCHANGED vars
    BY <2>3 DEF ReadEnd, ParseEnd, Closed, Gone, vars
  <2> QED
    BY <2>1, <2>2, <2>3 DEF Next, Parse
<1> QED
  BY InitInv, StepInv, <1>1, <1>2, PTL DEF Spec, ImplementsChannel, Channel!Spec

\* netbus.cpp:50-89, 153-187. No read or shift leaves the bounds of recv_buf or
\* of long_pkg, and recved never exceeds what they hold.
THEOREM StreamTypes == Spec => []TypeOK
BY RoomForever, PTL
=============================================================================
