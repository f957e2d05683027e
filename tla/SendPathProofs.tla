--------------------------- MODULE SendPathProofs ---------------------------
(***************************************************************************)
(* The write side of a session, for any sessions, messages and heap.  The  *)
(* proof follows where the next byte of each queued request belongs in the *)
(* stream: the requests of a queue lie end to end from what has been sent  *)
(* to what has been accepted.                                              *)
(***************************************************************************)
EXTENDS SendPath, SequenceTheorems, TLAPS

Byte == [msg : Msgs \cup {Junk}, at : Nat]

LEMMA InitType == Init => TypeOK
BY SendAssumption, EmptySeq DEF Init, TypeOK

\* The queue and the callbacks that a write leaves are requests.
LEMMA WriteType ==
    ASSUME NEW s \in Sessions, NEW q \in Seq(Request), NEW n \in Takes(s, q)
    PROVE  /\ n \in Nat
           /\ Remaining(s, q, n) \in Seq(Request)
           /\ Finished(s, q, n) \in Seq(Request)
<1>1. CASE q = <<>>
  BY <1>1, EmptySeq DEF Takes, Remaining, Finished, Over
<1>2. CASE q # <<>>
  <2>1. Head(q) \in Request /\ Tail(q) \in Seq(Request) /\ 1 \in 1 .. Len(q) /\ q[1] = Head(q)
    BY <1>2, HeadTailProperties
  <2>2. Head(q).left \in Nat
    BY <2>1 DEF Request
  <2>3. n \in Nat /\ n <= Head(q).left
    BY <1>2, <2>2 DEF Takes
  <2>4. Advance(Head(q), n) \in Request
    BY <2>1, <2>2, <2>3 DEF Advance, Request
  <2>5. [q EXCEPT ![1] = Advance(@, n)] \in Seq(Request)
    BY <2>1, <2>4, ExceptSeq
  <2>6. <<Advance(Head(q), n)>> \in Seq(Request)
    BY <2>4
  <2> QED
    BY <1>2, <2>1, <2>3, <2>5, <2>6, EmptySeq DEF Remaining, Finished
<1> QED
  BY <1>1, <1>2

-----------------------------------------------------------------------------
(* One write.                                                               *)

\* A write takes the first request off the queue, or shortens it.
LEMMA WriteFacts ==
    ASSUME NEW s \in Sessions, NEW q \in Seq(Request), NEW n \in Takes(s, q),
           NEW rest, rest = Remaining(s, q, n), NEW fin, fin = Finished(s, q, n)
    PROVE  \/ /\ q # <<>> /\ Len(rest) = Len(q) - 1
              /\ \A i \in 1 .. Len(rest) : rest[i] = q[i + 1]
              /\ Len(fin) = 1 /\ fin[1].msg = q[1].msg
              /\ Fails(s, q[1]) \/ q[1].left = n
           \/ /\ Len(rest) = Len(q) /\ fin = <<>>
              /\ \A i \in 1 .. Len(q) : rest[i] = IF i = 1 THEN Advance(q[1], n) ELSE q[i]
              /\ q # <<>> => n <= q[1].left
              /\ q = <<>> => n = 0
<1>1. CASE q = <<>>
  BY <1>1 DEF Takes, Remaining, Finished, Over
<1>2. CASE q # <<>>
  <2>1. Head(q) \in Request /\ 1 \in 1 .. Len(q) /\ q[1] = Head(q)
    BY <1>2, HeadTailProperties
  <2>2. Head(q).left \in Nat /\ n <= Head(q).left
    BY <1>2, <2>1 DEF Takes, Request
  <2>3. CASE Over(s, q, n)
    <3>1. rest = Tail(q) /\ fin = <<Advance(Head(q), n)>>
      BY <2>3 DEF Remaining, Finished
    <3>2. Advance(Head(q), n).msg = Head(q).msg
      BY <2>1 DEF Advance, Request
    <3>3. Len(rest) = Len(q) - 1 /\ \A i \in 1 .. Len(rest) : rest[i] = q[i + 1]
      BY <1>2, <3>1, HeadTailProperties
    <3> QED
      BY <1>2, <2>1, <2>3, <3>1, <3>2, <3>3 DEF Over
  <2>4. CASE ~Over(s, q, n)
    <3>1. rest = [q EXCEPT ![1] = Advance(q[1], n)] /\ fin = <<>>
      BY <1>2, <2>4 DEF Remaining, Finished
    <3>2. Advance(q[1], n) \in Request
      BY <1>2, <2>1, <2>2, <2>4, WriteType DEF Advance, Request, Takes
    <3>3. Len(rest) = Len(q) /\ \A i \in 1 .. Len(q) : rest[i] = IF i = 1 THEN Advance(q[1], n) ELSE q[i]
      BY <2>1, <3>1, <3>2, ExceptSeq
    <3> QED
      BY <2>1, <2>2, <3>1, <3>3
  <2> QED
    BY <2>3, <2>4
<1> QED
  BY <1>1, <1>2

LEMMA AdvanceFields ==
    ASSUME NEW r \in Request, NEW n
    PROVE  /\ Advance(r, n).msg = r.msg /\ Advance(r, n).block = r.block
           /\ Advance(r, n).left = r.left - n
BY DEF Advance, Request

\* What the requests of a session have in common; acc: the accepted messages.
Fits(r, s, acc) ==
    /\ To[r.msg] = s /\ r.msg \in acc
    /\ r.left <= Size[r.msg]
    /\ r.block = Null <=> r.msg \in TooLong

FitQueue(q, s, acc) ==
    /\ \A i \in 1 .. Len(q) : Fits(q[i], s, acc)
    /\ \A i, j \in 1 .. Len(q) : i # j => q[i].msg # q[j].msg

LEMMA WriteFits ==
    ASSUME NEW s \in Sessions, NEW q \in Seq(Request), NEW n \in Takes(s, q),
           NEW acc, FitQueue(q, s, acc)
    PROVE  /\ FitQueue(Remaining(s, q, n), s, acc)
           /\ Callbacks(q) = Callbacks(Finished(s, q, n)) \cup Callbacks(Remaining(s, q, n))
           /\ Callbacks(Finished(s, q, n)) \cap Callbacks(Remaining(s, q, n)) = {}
<1> DEFINE rest == Remaining(s, q, n)
           fin == Finished(s, q, n)
<1>1. n \in Nat /\ Len(q) \in Nat
  BY WriteType
<1>2. CASE q # <<>> /\ Len(rest) = Len(q) - 1 /\ (\A i \in 1 .. Len(rest) : rest[i] = q[i + 1])
            /\ Len(fin) = 1 /\ fin[1].msg = q[1].msg
  <2> HIDE DEF rest, fin
  <2>1. FitQueue(rest, s, acc)
    <3>1. \A i \in 1 .. Len(rest) : i + 1 \in 1 .. Len(q) /\ rest[i] = q[i + 1]
      BY <1>1, <1>2
    <3>2. /\ \A i \in 1 .. Len(q) : Fits(q[i], s, acc)
          /\ \A i, j \in 1 .. Len(q) : i # j => q[i].msg # q[j].msg
      BY DEF FitQueue
    <3>3. \A i, j \in 1 .. Len(rest) : i # j => i + 1 # j + 1
      OBVIOUS
    <3>4. \A i \in 1 .. Len(rest) : Fits(rest[i], s, acc)
      BY <3>1, <3>2
    <3>5. \A i, j \in 1 .. Len(rest) : i # j => rest[i].msg # rest[j].msg
      BY <3>1, <3>2, <3>3
    <3> QED
      BY <3>4, <3>5 DEF FitQueue
  <2>2. Callbacks(fin) = {q[1].msg}
    BY <1>2 DEF Callbacks
  <2>3. \A m : m \in Callbacks(rest) <=> \E i \in 2 .. Len(q) : m = q[i].msg
    <3>1. \A i \in 2 .. Len(q) : i - 1 \in 1 .. Len(rest) /\ rest[i - 1] = q[i]
      BY <1>1, <1>2
    <3>2. \A i \in 1 .. Len(rest) : i + 1 \in 2 .. Len(q) /\ rest[i] = q[i + 1]
      BY <1>1, <1>2
    <3>3. \A m : m \in Callbacks(rest) <=> \E i \in 1 .. Len(rest) : m = rest[i].msg
      BY DEF Callbacks
    <3>4. ASSUME NEW i \in 1 .. Len(rest)
          PROVE  \E j \in 2 .. Len(q) : rest[i].msg = q[j].msg
      BY <3>2
    <3>5. ASSUME NEW j \in 2 .. Len(q)
          PROVE  \E i \in 1 .. Len(rest) : q[j].msg = rest[i].msg
      <4>1. j - 1 \in 1 .. Len(rest) /\ rest[j - 1] = q[j]
        BY <3>1
      <4>2. q[j].msg = rest[j - 1].msg
        BY <4>1
      <4> QED
        BY <4>1, <4>2
    <3>6. ASSUME NEW m \in Callbacks(rest) PROVE \E j \in 2 .. Len(q) : m = q[j].msg
      <4>1. PICK i \in 1 .. Len(rest) : m = rest[i].msg
        BY <3>3
      <4> QED
        BY <3>4, <4>1
    <3>7. ASSUME NEW m, \E j \in 2 .. Len(q) : m = q[j].msg PROVE m \in Callbacks(rest)
      <4>1. PICK j \in 2 .. Len(q) : m = q[j].msg
        BY <3>7
      <4>2. PICK i \in 1 .. Len(rest) : q[j].msg = rest[i].msg
        BY <3>5
      <4> QED
        BY <3>3, <4>1, <4>2
    <3> QED
      BY <3>6, <3>7
  <2>4. 1 .. Len(q) = {1} \cup 2 .. Len(q) /\ 1 \notin 2 .. Len(q)
    BY <1>1, <1>2
  <2>5. Callbacks(q) = Callbacks(fin) \cup Callbacks(rest)
    <3>1. \A m : m \in Callbacks(q) <=> \E i \in 1 .. Len(q) : m = q[i].msg
      BY DEF Callbacks
    <3>2. \A m : m \in Callbacks(q) <=> m = q[1].msg \/ m \in Callbacks(rest)
      <4> TAKE m
      <4>1. m \in Callbacks(rest) <=> \E i \in 2 .. Len(q) : m = q[i].msg
        BY <2>3
      <4>2. (\E i \in 1 .. Len(q) : m = q[i].msg)
               <=> m = q[1].msg \/ \E i \in 2 .. Len(q) : m = q[i].msg
        BY <2>4
      <4> QED
        BY <3>1, <4>1, <4>2
    <3> QED
      BY <2>2, <3>2
  <2>6. q[1].msg \notin Callbacks(rest)
    BY <2>3, <2>4 DEF FitQueue
  <2> QED
    BY <2>1, <2>2, <2>5, <2>6 DEF rest, fin
<1>3. CASE Len(rest) = Len(q) /\ fin = <<>>
            /\ \A i \in 1 .. Len(q) : rest[i] = IF i = 1 THEN Advance(q[1], n) ELSE q[i]
  <2> HIDE DEF rest, fin
  <2>1. ASSUME NEW i \in 1 .. Len(q)
        PROVE  /\ rest[i].msg = q[i].msg /\ rest[i].block = q[i].block
               /\ rest[i].left <= q[i].left /\ q[i].left \in Nat /\ rest[i].left \in Int
               /\ Size[q[i].msg] \in Nat
    <3>0. q[i] \in Request
      BY ElementOfSeq
    <3>1. q[i].left \in Nat /\ Size[q[i].msg] \in Nat
      BY <3>0, SendAssumption DEF Request
    <3> QED
      BY <1>1, <1>3, <3>0, <3>1, AdvanceFields
  <2>2. FitQueue(rest, s, acc)
    BY <1>3, <2>1 DEF FitQueue, Fits
  <2>3. Callbacks(rest) = Callbacks(q) /\ Callbacks(fin) = {}
    BY <1>3, <2>1 DEF Callbacks
  <2> QED
    BY <2>2, <2>3 DEF rest, fin
<1> QED
  BY <1>2, <1>3, WriteFacts
-----------------------------------------------------------------------------
(* Where the bytes of a queue belong in the stream.                         *)

Begin(r, st) == st[r.msg] + (IF r.msg \in TooLong THEN 0 ELSE Size[r.msg] - r.left)

End(r, st) == st[r.msg] + Bytes(r.msg)

\* The queue lies end to end from what has been sent to what was accepted.
Linked(q, pos, tot, st) ==
    /\ \A i \in 1 .. Len(q) : Begin(q[i], st) = IF i = 1 THEN pos ELSE End(q[i - 1], st)
    /\ tot = IF Len(q) = 0 THEN pos ELSE End(q[Len(q)], st)

Intact(q, mem) ==
    \A i \in 1 .. Len(q) : q[i].block # Null => mem[q[i].block] = q[i].msg

Ordered(o, s, acc, st) ==
    \A i \in 1 .. Len(o) :
        /\ o[i].msg \in acc /\ To[o[i].msg] = s
        /\ o[i].at \in 1 .. Size[o[i].msg]
        /\ st[o[i].msg] + o[i].at = i

\* The n bytes of a write take the first request from its begin, to its end if
\* it is over.
LEMMA WriteBegin ==
    ASSUME NEW s \in Sessions \ broken, NEW q \in Seq(Request), q # <<>>,
           NEW n \in Takes(s, q), NEW st \in [Msgs -> Nat]
    PROVE  /\ Begin(Advance(q[1], n), st) = Begin(q[1], st) + n
           /\ Fails(s, q[1]) \/ q[1].left = n => Begin(q[1], st) + n = End(q[1], st)
           /\ End(Advance(q[1], n), st) = End(q[1], st)
           /\ Begin(q[1], st) \in Int /\ End(q[1], st) \in Int
<1>1. q[1] \in Request /\ Head(q) = q[1]
  BY HeadTailProperties, ElementOfSeq
<1>2. q[1].msg \in Msgs /\ q[1].left \in Nat /\ n \in Nat
  BY <1>1, WriteType DEF Request
<1>3. Size[q[1].msg] \in Nat /\ st[q[1].msg] \in Nat
  BY <1>2, SendAssumption
<1>4. q[1].msg \in TooLong => n = 0
  BY <1>1, <1>2 DEF Takes, Fails
<1>5. Fails(s, q[1]) => q[1].msg \in TooLong
  BY DEF Fails
<1>6. /\ Advance(q[1], n).msg = q[1].msg
      /\ Advance(q[1], n).left = q[1].left - n
  BY <1>1, AdvanceFields
<1>7. /\ Begin(Advance(q[1], n), st) = Begin(q[1], st) + n
      /\ Begin(q[1], st) \in Int
  <2>1. CASE q[1].msg \in TooLong
    BY <1>2, <1>3, <1>4, <1>6, <2>1 DEF Begin
  <2>2. CASE q[1].msg \notin TooLong
    BY <1>2, <1>3, <1>6, <2>2 DEF Begin
  <2> QED
    BY <2>1, <2>2
<1>8. /\ Fails(s, q[1]) \/ q[1].left = n => Begin(q[1], st) + n = End(q[1], st)
      /\ End(q[1], st) \in Int
  <2>1. CASE q[1].msg \in TooLong
    BY <1>2, <1>3, <1>4, <2>1 DEF Begin, End, Bytes
  <2>2. CASE q[1].msg \notin TooLong
    BY <1>2, <1>3, <1>5, <2>2 DEF Begin, End, Bytes
  <2> QED
    BY <2>1, <2>2
<1> QED
  BY <1>6, <1>7, <1>8 DEF End

LEMMA WriteLinked ==
    ASSUME NEW s \in Sessions \ broken, NEW q \in Seq(Request), NEW n \in Takes(s, q),
           NEW st \in [Msgs -> Nat], NEW pos \in Nat, NEW tot, Linked(q, pos, tot, st)
    PROVE  Linked(Remaining(s, q, n), pos + n, tot, st)
<1> DEFINE rest == Remaining(s, q, n)
           fin == Finished(s, q, n)
<1>1. n \in Nat /\ Len(q) \in Nat
  BY WriteType
<1>2. CASE q # <<>> /\ Len(rest) = Len(q) - 1 /\ (\A i \in 1 .. Len(rest) : rest[i] = q[i + 1])
            /\ (Fails(s, q[1]) \/ q[1].left = n)
  <2>1. Len(q) >= 1
    BY <1>1, <1>2, EmptySeq
  <2>2. Begin(q[1], st) = pos /\ Begin(q[1], st) + n = End(q[1], st)
    BY <1>2, <2>1, WriteBegin DEF Linked
  <2> HIDE DEF rest
  <2>3. ASSUME NEW i \in 1 .. Len(rest)
        PROVE  Begin(rest[i], st) = IF i = 1 THEN pos + n ELSE End(rest[i - 1], st)
    <3>1. rest[i] = q[i + 1] /\ i + 1 \in 1 .. Len(q)
      BY <1>1, <1>2
    <3>2. Begin(q[i + 1], st) = End(q[i], st)
      BY <1>1, <3>1 DEF Linked
    <3>3. i # 1 => rest[i - 1] = q[i]
      BY <1>1, <1>2
    <3> QED
      BY <2>2, <3>1, <3>2, <3>3
  <2>4. tot = IF Len(rest) = 0 THEN pos + n ELSE End(rest[Len(rest)], st)
    <3>1. tot = End(q[Len(q)], st)
      BY <1>1, <2>1 DEF Linked
    <3>2. CASE Len(q) = 1
      BY <1>1, <1>2, <2>2, <3>1, <3>2
    <3>3. CASE Len(q) # 1
      <4>1. Len(rest) \in 1 .. Len(rest) /\ Len(rest) + 1 = Len(q) /\ Len(rest) # 0
        BY <1>1, <1>2, <2>1, <3>3
      <4> QED
        BY <1>2, <3>1, <4>1
    <3> QED
      BY <3>2, <3>3
  <2> QED
    BY <2>3, <2>4 DEF Linked, rest
<1>3. CASE Len(rest) = Len(q) /\ q # <<>>
            /\ \A i \in 1 .. Len(q) : rest[i] = IF i = 1 THEN Advance(q[1], n) ELSE q[i]
  <2>1. Len(q) >= 1
    BY <1>1, <1>3, EmptySeq
  <2>2. /\ Begin(q[1], st) = pos /\ Begin(Advance(q[1], n), st) = pos + n
        /\ End(Advance(q[1], n), st) = End(q[1], st)
    BY <1>3, <2>1, WriteBegin DEF Linked
  <2> HIDE DEF rest
  <2>3. \A i \in 1 .. Len(q) : End(rest[i], st) = End(q[i], st)
    BY <1>3, <2>2
  <2>4. ASSUME NEW i \in 1 .. Len(rest)
        PROVE  Begin(rest[i], st) = IF i = 1 THEN pos + n ELSE End(rest[i - 1], st)
    <3>1. CASE i = 1
      BY <1>3, <2>1, <2>2, <3>1
    <3>2. CASE i # 1
      <4>1. i \in 1 .. Len(q) /\ i - 1 \in 1 .. Len(q) /\ rest[i] = q[i]
        BY <1>1, <1>3, <3>2
      <4> QED
        BY <2>3, <3>2, <4>1 DEF Linked
    <3> QED
      BY <3>1, <3>2
  <2>5. tot = IF Len(rest) = 0 THEN pos + n ELSE End(rest[Len(rest)], st)
    BY <1>1, <1>3, <2>1, <2>3 DEF Linked
  <2> QED
    BY <2>4, <2>5 DEF Linked, rest
<1>4. CASE q = <<>>
  <2>1. n = 0 /\ rest = q
    BY <1>4 DEF Takes, Remaining, Over
  <2> QED
    BY <2>1, <1>4 DEF Linked
<1> QED
  BY <1>2, <1>3, <1>4, WriteFacts

LEMMA WriteIntact ==
    ASSUME NEW s \in Sessions, NEW q \in Seq(Request), NEW n \in Takes(s, q),
           NEW mem, Intact(q, mem)
    PROVE  Intact(Remaining(s, q, n), mem)
<1> DEFINE rest == Remaining(s, q, n)
           fin == Finished(s, q, n)
<1>1. Len(q) \in Nat
  OBVIOUS
<1>2. \A i \in 1 .. Len(rest) : \E j \in 1 .. Len(q) :
          rest[i].block = q[j].block /\ rest[i].msg = q[j].msg
  <2>1. CASE Len(rest) = Len(q) - 1 /\ \A i \in 1 .. Len(rest) : rest[i] = q[i + 1]
    <3> HIDE DEF rest
    <3>1. \A i \in 1 .. Len(rest) : i + 1 \in 1 .. Len(q) /\ rest[i] = q[i + 1]
      BY <1>1, <2>1
    <3> QED
      BY <3>1
  <2>2. CASE Len(rest) = Len(q)
             /\ \A i \in 1 .. Len(q) : rest[i] = IF i = 1 THEN Advance(q[1], n) ELSE q[i]
    <3> HIDE DEF rest
    <3>1. \A i \in 1 .. Len(q) : q[i] \in Request
      BY ElementOfSeq
    <3> QED
      BY <2>2, <3>1, AdvanceFields
  <2> QED
    BY <2>1, <2>2, WriteFacts
<1> QED
  BY <1>2 DEF Intact

\* The bytes of a write are those of the first request, from its begin on, if its
\* block still holds its message.
LEMMA EmittedBytes ==
    ASSUME NEW s \in Sessions, NEW q \in Seq(Request), NEW n \in Takes(s, q),
           NEW mem \in [Blocks -> Msgs \cup {Junk}], NEW acc, FitQueue(q, s, acc)
    PROVE  /\ n \in Nat
           /\ Emitted(q, n, mem) \in Seq(Byte) /\ Len(Emitted(q, n, mem)) = n
           /\ n > 0 => s \notin broken /\ q # <<>>
           /\ \A i \in 1 .. n :
                 /\ Emitted(q, n, mem)[i].at = Size[q[1].msg] - q[1].left + i
                 /\ Emitted(q, n, mem)[i].msg = mem[q[1].block]
                 /\ q[1].block # Null /\ q[1].msg \notin TooLong
                 /\ i <= q[1].left /\ q[1].left <= Size[q[1].msg]
<1>1. n \in Nat
  BY WriteType
<1>2. ASSUME NEW i \in 1 .. n
      PROVE  /\ s \notin broken /\ q # <<>> /\ Head(q) = q[1]
             /\ q[1].block \in Blocks /\ q[1].block # Null /\ q[1].msg \notin TooLong
             /\ i <= q[1].left /\ q[1].left <= Size[q[1].msg]
             /\ Size[q[1].msg] - q[1].left + i \in Nat
  <2>1. q # <<>> /\ n \in 0 .. Head(q).left /\ ~Fails(s, Head(q))
    BY <1>1, <1>2 DEF Takes
  <2>2. q[1] \in Request /\ Head(q) = q[1] /\ 1 \in 1 .. Len(q)
    BY <2>1, HeadTailProperties, ElementOfSeq
  <2>3. q[1].left \in Nat /\ q[1].msg \in Msgs /\ q[1].block \in Blocks \cup {Null}
    BY <2>2 DEF Request
  <2>4. Size[q[1].msg] \in Nat
    BY <2>3, SendAssumption
  <2>5. q[1].left > 0 /\ s \notin broken /\ q[1].msg \notin TooLong
    BY <1>1, <1>2, <2>1, <2>2, <2>3 DEF Fails
  <2>6. q[1].block # Null /\ q[1].left <= Size[q[1].msg]
    BY <2>2, <2>5 DEF FitQueue, Fits
  <2>7. i <= q[1].left
    BY <1>1, <2>1, <2>2, <2>3
  <2> QED
    BY <2>1, <2>2, <2>3, <2>4, <2>5, <2>6, <2>7
<1> DEFINE f(i) == [msg |-> mem[Head(q).block], at |-> Size[Head(q).msg] - Head(q).left + i]
           e == [i \in 1 .. n |-> f(i)]
<1>3. ASSUME NEW i \in 1 .. n
      PROVE  /\ f(i) \in Byte /\ f(i).msg = mem[q[1].block]
             /\ f(i).at = Size[q[1].msg] - q[1].left + i
  BY <1>2 DEF Byte
<1>4. /\ e \in [1 .. n -> Byte]
      /\ \A i \in 1 .. n : /\ e[i].msg = mem[q[1].block]
                          /\ e[i].at = Size[q[1].msg] - q[1].left + i
  BY <1>3
<1>5. e \in Seq(Byte) /\ Len(e) = n
  <2> HIDE DEF e
  <2> QED
    BY <1>1, <1>4, SeqDef, LenProperties
<1>6. Emitted(q, n, mem) = e
  BY DEF Emitted
<1>7. n > 0 => s \notin broken /\ q # <<>>
  <2>1. n > 0 => 1 \in 1 .. n
    BY <1>1
  <2> QED
    BY <1>2, <2>1
<1> HIDE DEF e
<1> QED
  BY <1>1, <1>2, <1>4, <1>5, <1>6, <1>7

\* After a write the stream is in order, and the rest of the queue lies where it
\* ends.
LEMMA WriteOrdered ==
    ASSUME NEW s \in Sessions, NEW q \in Seq(Request), NEW n \in Takes(s, q),
           NEW mem \in [Blocks -> Msgs \cup {Junk}], NEW acc, FitQueue(q, s, acc),
           NEW o \in Seq(Byte), NEW tot, NEW st \in [Msgs -> Nat],
           s \notin broken => Linked(q, Len(o), tot, st)
    PROVE  LET o2 == o \o Emitted(q, n, mem) IN
           /\ o2 \in Seq(Byte)
           /\ s \notin broken => Linked(Remaining(s, q, n), Len(o2), tot, st)
           /\ Intact(q, mem) /\ Ordered(o, s, acc, st) => Ordered(o2, s, acc, st)
<1> DEFINE e == Emitted(q, n, mem)
           o2 == o \o e
<1>1. /\ n \in Nat /\ e \in Seq(Byte) /\ Len(e) = n
      /\ n > 0 => s \notin broken /\ q # <<>>
  BY EmittedBytes
<1>2. ASSUME NEW i \in 1 .. n
      PROVE  /\ e[i].at = Size[q[1].msg] - q[1].left + i
             /\ e[i].msg = mem[q[1].block]
             /\ q[1].block # Null /\ q[1].msg \notin TooLong
             /\ i <= q[1].left /\ q[1].left <= Size[q[1].msg]
  BY EmittedBytes
<1> HIDE DEF e
<1>3. /\ o2 \in Seq(Byte) /\ Len(o2) = Len(o) + n /\ Len(o) \in Nat
      /\ \A i \in 1 .. Len(o) + n : o2[i] = IF i <= Len(o) THEN o[i] ELSE e[i - Len(o)]
  <2>1. o2 \in Seq(Byte) /\ Len(o2) = Len(o) + Len(e)
    BY <1>1, ConcatProperties
  <2>2. \A i \in 1 .. Len(o) + Len(e) : o2[i] = IF i <= Len(o) THEN o[i] ELSE e[i - Len(o)]
    BY <1>1, ConcatProperties
  <2> HIDE DEF o2
  <2> QED
    BY <1>1, <2>1, <2>2, LenProperties
<1>4. s \notin broken => Linked(Remaining(s, q, n), Len(o2), tot, st)
  BY <1>1, <1>3, WriteLinked
<1>5. ASSUME Intact(q, mem), Ordered(o, s, acc, st) PROVE Ordered(o2, s, acc, st)
  <2> SUFFICES ASSUME NEW i \in 1 .. Len(o2)
               PROVE  /\ o2[i].msg \in acc /\ To[o2[i].msg] = s
                      /\ o2[i].at \in 1 .. Size[o2[i].msg]
                      /\ st[o2[i].msg] + o2[i].at = i
    BY DEF Ordered
  <2>1. CASE i <= Len(o)
    <3>1. i \in 1 .. Len(o) /\ o2[i] = o[i]
      BY <1>1, <1>3, <2>1
    <3> QED
      BY <1>5, <3>1 DEF Ordered
  <2>2. CASE ~(i <= Len(o))
    <3> DEFINE k == i - Len(o)
    <3>1. k \in 1 .. n /\ o2[i] = e[k]
      BY <1>1, <1>3, <2>2
    <3>2. q # <<>> /\ s \notin broken /\ 1 \in 1 .. Len(q) /\ q[1] \in Request
      BY <1>1, <3>1, HeadTailProperties, ElementOfSeq
    <3>3. e[k].msg = q[1].msg /\ e[k].at = Size[q[1].msg] - q[1].left + k
          /\ k <= q[1].left /\ q[1].left <= Size[q[1].msg] /\ q[1].msg \notin TooLong
      BY <1>2, <1>5, <3>1, <3>2 DEF Intact
    <3>4. q[1].msg \in Msgs /\ q[1].left \in Nat
      BY <3>2 DEF Request
    <3>5. Size[q[1].msg] \in Nat /\ st[q[1].msg] \in Nat
      BY <3>4, SendAssumption
    <3>6. Begin(q[1], st) = Len(o)
      BY <3>2 DEF Linked
    <3>7. st[q[1].msg] + (Size[q[1].msg] - q[1].left) = Len(o)
      BY <3>3, <3>6 DEF Begin
    <3>8. q[1].msg \in acc /\ To[q[1].msg] = s
      BY <3>2 DEF FitQueue, Fits
    <3>9. i \in Int /\ k \in Int /\ k >= 1 /\ i = Len(o) + k /\ Len(o) \in Nat
      BY <1>1, <1>3, <3>1
    <3>10. e[k].at \in Int /\ e[k].at \in 1 .. Size[q[1].msg] /\ st[q[1].msg] + e[k].at = i
      <4> DEFINE size == Size[q[1].msg]
                 left == q[1].left
                 first == st[q[1].msg]
                 pos == Len(o)
                 at == e[k].at
      <4>1. /\ size \in Nat /\ left \in Nat /\ first \in Nat /\ pos \in Nat
            /\ at = size - left + k /\ k <= left /\ left <= size
            /\ first + (size - left) = pos
        BY <3>3, <3>4, <3>5, <3>7, <3>9
      <4> HIDE DEF k, size, left, first, pos, at
      <4>2. at \in Int /\ at \in 1 .. size /\ first + at = pos + k
        BY <3>9, <4>1
      <4> QED
        BY <3>9, <4>2 DEF size, left, first, pos, at
    <3> QED
      BY <3>1, <3>3, <3>8, <3>10
  <2> QED
    BY <2>1, <2>2
<1> QED
  BY <1>3, <1>4, <1>5 DEF e
-----------------------------------------------------------------------------
(* The invariant.                                                           *)

Accepted == asked \ refused

\* The requests of a session are its own, each once, queued or completed.
Shape ==
    \A s \in Sessions :
        /\ FitQueue(write_queue[s], s, Accepted)
        /\ \A m \in Callbacks(completed[s]) : m \in Accepted /\ To[m] = s
        /\ Callbacks(write_queue[s]) \cap Callbacks(completed[s]) = {}

ClosedEmpty ==
    \A s \in Sessions :
        conn[s] \in {"closing", "closed"} => write_queue[s] = <<>> /\ completed[s] = <<>>

Chained ==
    \A s \in Sessions \ broken : Linked(write_queue[s], Len(sent[s]), total[s], start)

IntactQueues == \A s \in Sessions \ spoiled : Intact(write_queue[s], memory)

InOrderParts == \A s \in Sessions \ spoiled : Ordered(sent[s], s, Accepted, start)

Inv ==
    /\ TypeOK /\ refused \subseteq asked
    /\ Shape /\ RequestsExact /\ ClosedEmpty
    /\ Chained /\ IntactQueues /\ InOrderParts

LEMMA OrderedIsInOrder == InOrderParts <=> InOrder
BY DEF InOrderParts, InOrder, Ordered, Accepted

LEMMA CallbacksConcat ==
    ASSUME NEW c \in Seq(Request), NEW d \in Seq(Request)
    PROVE  Callbacks(c \o d) = Callbacks(c) \cup Callbacks(d)
<1>1. /\ Len(c \o d) = Len(c) + Len(d) /\ Len(c) \in Nat /\ Len(d) \in Nat
      /\ \A i \in 1 .. Len(c) + Len(d) : (c \o d)[i] = IF i <= Len(c) THEN c[i] ELSE d[i - Len(c)]
  BY ConcatProperties, LenProperties
<1>2. ASSUME NEW m \in Callbacks(c \o d) PROVE m \in Callbacks(c) \cup Callbacks(d)
  <2>1. PICK i \in 1 .. Len(c) + Len(d) : m = (c \o d)[i].msg
    BY <1>1, <1>2 DEF Callbacks
  <2>2. CASE i <= Len(c)
    <3>1. i \in 1 .. Len(c) /\ (c \o d)[i] = c[i]
      BY <1>1, <2>2
    <3> QED
      BY <2>1, <3>1 DEF Callbacks
  <2>3. CASE ~(i <= Len(c))
    <3>1. i - Len(c) \in 1 .. Len(d) /\ (c \o d)[i] = d[i - Len(c)]
      BY <1>1, <2>3
    <3> QED
      BY <2>1, <3>1 DEF Callbacks
  <2> QED
    BY <2>2, <2>3
<1>3. ASSUME NEW i \in 1 .. Len(c) PROVE c[i].msg \in Callbacks(c \o d)
  <2>1. i \in 1 .. Len(c \o d) /\ (c \o d)[i] = c[i]
    BY <1>1
  <2> QED
    BY <2>1 DEF Callbacks
<1>4. ASSUME NEW i \in 1 .. Len(d) PROVE d[i].msg \in Callbacks(c \o d)
  <2>1. i + Len(c) \in 1 .. Len(c \o d) /\ (c \o d)[i + Len(c)] = d[i]
    BY <1>1
  <2> QED
    BY <2>1 DEF Callbacks
<1> QED
  BY <1>2, <1>3, <1>4 DEF Callbacks

LEMMA CallbacksAppend ==
    ASSUME NEW q \in Seq(Request), NEW r \in Request
    PROVE  Callbacks(Append(q, r)) = Callbacks(q) \cup {r.msg}
<1>1. <<r>> \in Seq(Request) /\ Append(q, r) = q \o <<r>>
  BY AppendIsConcat
<1>2. Callbacks(<<r>>) = {r.msg}
  BY DEF Callbacks
<1> QED
  BY <1>1, <1>2, CallbacksConcat

LEMMA InitInv == Init => Inv
<1> SUFFICES ASSUME Init PROVE Inv
  OBVIOUS
<1>1. \A s \in Sessions : write_queue[s] = <<>> /\ completed[s] = <<>> /\ sent[s] = <<>>
  BY DEF Init
<1>2. Len(<<>>) = 0 /\ Callbacks(<<>>) = {}
  BY EmptySeq DEF Callbacks
<1>3. Shape /\ ClosedEmpty /\ Chained /\ IntactQueues /\ InOrderParts
  BY <1>1, <1>2 DEF Init, Shape, ClosedEmpty, Chained, IntactQueues, InOrderParts,
                    FitQueue, Linked, Intact, Ordered
<1>4. RequestsExact
  BY <1>1, <1>2 DEF Init, RequestsExact, Queued
<1> QED
  BY <1>3, <1>4, InitType DEF Inv, Init
-----------------------------------------------------------------------------
(* The event loop writes.                                                   *)

LEMMA PollOutInv ==
    ASSUME Inv, NEW s \in Sessions, NEW n, PollOut(s, n)
    PROVE  Inv'
<1> DEFINE q == write_queue[s]
           rest == Remaining(s, q, n)
           fin == Finished(s, q, n)
           out == sent[s] \o Emitted(q, n, memory)
<1> USE DEF Inv
<1>1. /\ q \in Seq(Request) /\ completed[s] \in Seq(Request) /\ n \in Takes(s, q)
      /\ sent[s] \in Seq(Byte) /\ memory \in [Blocks -> Msgs \cup {Junk}]
      /\ start \in [Msgs -> Nat] /\ FitQueue(q, s, Accepted)
  BY DEF PollOut, TypeOK, Byte, Shape
<1>2. /\ rest \in Seq(Request) /\ fin \in Seq(Request) /\ FitQueue(rest, s, Accepted)
      /\ Callbacks(q) = Callbacks(fin) \cup Callbacks(rest)
      /\ Callbacks(fin) \cap Callbacks(rest) = {}
  BY <1>1, WriteType, WriteFits
<1>3. /\ out \in Seq(Byte)
      /\ s \notin broken => Linked(rest, Len(out), total[s], start)
      /\ Intact(q, memory) /\ Ordered(sent[s], s, Accepted, start)
            => Ordered(out, s, Accepted, start)
  <2>1. s \notin broken => Linked(q, Len(sent[s]), total[s], start)
    BY DEF Chained
  <2> QED
    BY <1>1, <2>1, WriteOrdered
<1>4. Intact(q, memory) => Intact(rest, memory)
  BY <1>1, WriteIntact
<1>5. Callbacks(completed[s] \o fin) = Callbacks(completed[s]) \cup Callbacks(fin)
  BY <1>1, <1>2, CallbacksConcat
<1>6. /\ write_queue' = [write_queue EXCEPT ![s] = rest]
      /\ completed' = [completed EXCEPT ![s] = <<>>]
      /\ sent' = [sent EXCEPT ![s] = out]
      /\ wr' = wr \ Callbacks(completed[s] \o fin)
      /\ conn' = [conn EXCEPT ![s] = IF Drain(s, rest) THEN "closing" ELSE @]
      /\ UNCHANGED <<broken, memory, asked, refused, start, total, spoiled>>
      /\ conn[s] \in {"open", "shutting"}
  BY DEF PollOut
<1> HIDE DEF q, rest, fin, out
<1>7. TypeOK'
  BY <1>2, <1>3, <1>6, EmptySeq DEF TypeOK, Byte
<1>8. /\ \A x \in Sessions :
             /\ write_queue'[x] = IF x = s THEN rest ELSE write_queue[x]
             /\ completed'[x] = IF x = s THEN <<>> ELSE completed[x]
             /\ sent'[x] = IF x = s THEN out ELSE sent[x]
             /\ x # s => conn'[x] = conn[x]
      /\ Accepted' = Accepted
  BY <1>6 DEF TypeOK, Accepted
<1>9. Callbacks(<<>>) = {}
  BY EmptySeq DEF Callbacks
<1>10. Shape'
  BY <1>2, <1>8, <1>9 DEF Shape
<1>11. RequestsExact'
  <2>1. \A x \in Sessions : Queued(x)' = IF x = s THEN Callbacks(rest) ELSE Queued(x)
    BY <1>8, <1>9 DEF Queued
  <2>2. Queued(s) = Callbacks(completed[s]) \cup Callbacks(fin) \cup Callbacks(rest)
    BY <1>2 DEF Queued, q
  <2>3. \A x \in Sessions : \A m \in Queued(x) : To[m] = x /\ m \notin refused
    BY DEF Shape, Queued, FitQueue, Fits, Callbacks, Accepted
  <2>4. Callbacks(rest) \cap Callbacks(completed[s] \o fin) = {}
    BY <1>2, <1>5 DEF Shape, q
  <2>5. wr' = wr \ (Callbacks(completed[s]) \cup Callbacks(fin)) /\ refused' = refused
    BY <1>5, <1>6
  <2> QED
    BY <1>5, <2>1, <2>2, <2>3, <2>4, <2>5 DEF RequestsExact
<1>12. ClosedEmpty'
  <2>1. ASSUME conn'[s] \in {"closing", "closed"} PROVE rest = <<>>
    BY <1>6, <2>1 DEF Drain, TypeOK
  <2> QED
    BY <1>8, <2>1 DEF ClosedEmpty
<1>13. Chained'
  BY <1>3, <1>6, <1>8 DEF Chained
<1>14. IntactQueues'
  BY <1>4, <1>6, <1>8 DEF IntactQueues, q
<1>15. InOrderParts'
  BY <1>3, <1>6, <1>8 DEF InOrderParts, IntactQueues, q
<1> QED
  BY <1>6, <1>7, <1>10, <1>11, <1>12, <1>13, <1>14, <1>15
-----------------------------------------------------------------------------
(* A session sends.                                                         *)

\* A queue whose block was not written to is intact.
LEMMA OverwriteIntact ==
    ASSUME Inv, NEW b \in Blocks \cup {Null}, NEW v \in Msgs \cup {Junk},
           memory' = [c \in Blocks |-> IF c = b THEN v ELSE memory[c]],
           spoiled' = spoiled \cup Overwritten(b)
    PROVE  /\ memory' \in [Blocks -> Msgs \cup {Junk}] /\ spoiled' \subseteq Sessions
           /\ \A x \in Sessions \ spoiled' : Intact(write_queue[x], memory')
<1>1. memory' \in [Blocks -> Msgs \cup {Junk}] /\ spoiled' \subseteq Sessions
  BY DEF Inv, TypeOK, Overwritten
<1>2. ASSUME NEW x \in Sessions \ spoiled', NEW i \in 1 .. Len(write_queue[x]),
             write_queue[x][i].block # Null
      PROVE  memory'[write_queue[x][i].block] = write_queue[x][i].msg
  <2>1. write_queue[x][i] \in Request
    BY ElementOfSeq DEF Inv, TypeOK
  <2>2. write_queue[x][i].block \in Blocks
    BY <1>2, <2>1 DEF Request
  <2>3. write_queue[x][i].block # b
    BY <1>2 DEF Overwritten
  <2>4. memory[write_queue[x][i].block] = write_queue[x][i].msg
    BY <1>2 DEF Inv, IntactQueues, Intact
  <2> QED
    BY <2>2, <2>3, <2>4
<1> QED
  BY <1>1, <1>2 DEF Intact

\* A message that is accepted changes nothing for those accepted before.
LEMMA AcceptKeeps ==
    ASSUME NEW q \in Seq(Request), NEW o \in Seq(Byte), NEW s, NEW acc, NEW acc2,
           acc \subseteq acc2, NEW st, NEW st2, \A m \in acc : st2[m] = st[m]
    PROVE  /\ FitQueue(q, s, acc) => FitQueue(q, s, acc2)
           /\ \A pos, tot : FitQueue(q, s, acc) /\ Linked(q, pos, tot, st)
                               => Linked(q, pos, tot, st2)
           /\ Ordered(o, s, acc, st) => Ordered(o, s, acc2, st2)
<1>1. FitQueue(q, s, acc) => FitQueue(q, s, acc2)
  BY DEF FitQueue, Fits
<1>2. ASSUME NEW pos, NEW tot, FitQueue(q, s, acc), Linked(q, pos, tot, st)
      PROVE  Linked(q, pos, tot, st2)
  <2>1. Len(q) \in Nat
    OBVIOUS
  <2>2. ASSUME NEW i \in 1 .. Len(q)
        PROVE  Begin(q[i], st2) = Begin(q[i], st) /\ End(q[i], st2) = End(q[i], st)
    BY <1>2 DEF FitQueue, Fits, Begin, End
  <2>3. \A i \in 1 .. Len(q) : i # 1 => i - 1 \in 1 .. Len(q)
    BY <2>1
  <2>4. Len(q) # 0 => Len(q) \in 1 .. Len(q)
    BY <2>1
  <2> QED
    BY <1>2, <2>2, <2>3, <2>4 DEF Linked
<1>3. Ordered(o, s, acc, st) => Ordered(o, s, acc2, st2)
  BY DEF Ordered
<1> QED
  BY <1>1, <1>2, <1>3

\* A package that is queued begins where what was accepted ends.
LEMMA AppendLinked ==
    ASSUME NEW q \in Seq(Request), NEW r \in Request, NEW pos \in Nat, NEW tot \in Nat,
           NEW st \in [Msgs -> Nat], Linked(q, pos, tot, st),
           st[r.msg] = tot, r.msg \notin TooLong => r.left = Size[r.msg]
    PROVE  Linked(Append(q, r), pos, tot + Bytes(r.msg), st)
<1> DEFINE a == Append(q, r)
<1>1. /\ Len(a) = Len(q) + 1 /\ Len(q) \in Nat
      /\ \A i \in 1 .. Len(q) : a[i] = q[i]
      /\ a[Len(q) + 1] = r
  BY AppendProperties
<1>2. r.msg \in Msgs /\ Size[r.msg] \in Nat
  BY SendAssumption DEF Request
<1>3. Begin(r, st) = tot /\ End(r, st) = tot + Bytes(r.msg)
  BY <1>2 DEF Begin, End
<1> HIDE DEF a
<1>4. ASSUME NEW i \in 1 .. Len(a)
      PROVE  Begin(a[i], st) = IF i = 1 THEN pos ELSE End(a[i - 1], st)
  <2>1. CASE i \in 1 .. Len(q)
    <3>1. a[i] = q[i] /\ (i # 1 => i - 1 \in 1 .. Len(q) /\ a[i - 1] = q[i - 1])
      BY <1>1, <2>1
    <3> QED
      BY <2>1, <3>1 DEF Linked
  <2>2. CASE i \notin 1 .. Len(q)
    <3>1. i = Len(q) + 1 /\ a[i] = r /\ i - 1 = Len(q)
      BY <1>1, <2>2
    <3>2. CASE Len(q) = 0
      BY <1>3, <3>1, <3>2 DEF Linked
    <3>3. CASE Len(q) # 0
      <4>1. a[i - 1] = q[Len(q)] /\ i # 1
        BY <1>1, <3>1, <3>3
      <4> QED
        BY <1>3, <3>1, <3>3, <4>1 DEF Linked
    <3> QED
      BY <3>2, <3>3
  <2> QED
    BY <2>1, <2>2
<1>5. tot + Bytes(r.msg) = IF Len(a) = 0 THEN pos ELSE End(a[Len(a)], st)
  BY <1>1, <1>3
<1> QED
  BY <1>4, <1>5 DEF Linked, a
\* The package fits, and it is NULL iff the message is too long.
LEMMA PackageType ==
    ASSUME NEW m \in Msgs, NEW b \in BlocksFor(m), NEW len \in Lengths(m)
    PROVE  /\ b \in Blocks \cup {Null} /\ (b = Null <=> m \in TooLong)
           /\ len \in Nat /\ len <= Size[m] /\ (m \notin TooLong => len = Size[m])
           /\ [msg |-> m, block |-> b, left |-> len] \in Request
<1>1. Size[m] \in Nat \ {0}
  BY SendAssumption
<1>2. len \in Nat /\ len <= Size[m] /\ (m \notin TooLong => len = Size[m])
  BY <1>1 DEF Lengths
<1>3. b \in Blocks \cup {Null} /\ (b = Null <=> m \in TooLong)
  BY SendAssumption DEF BlocksFor, Blocks
<1> QED
  BY <1>2, <1>3 DEF Request

LEMMA SendInv ==
    ASSUME Inv, NEW m \in Msgs, Send(m)
    PROVE  Inv'
<1> DEFINE s == To[m]
           acc == Accepted \cup {m}
           tot == total[s] + Bytes(m)
<1> USE DEF Inv
<1>1. PICK b \in BlocksFor(m), len \in Lengths(m) :
          /\ memory' = [c \in Blocks |-> IF c = b THEN m ELSE memory[c]]
          /\ spoiled' = spoiled \cup Overwritten(b)
          /\ UvWrite(s, [msg |-> m, block |-> b, left |-> len], memory')
  BY DEF Send
<1> DEFINE r == [msg |-> m, block |-> b, left |-> len]
           q == Append(write_queue[s], r)
<1>2. /\ b \in Blocks \cup {Null} /\ (b = Null <=> m \in TooLong)
      /\ len \in Nat /\ len <= Size[m] /\ (m \notin TooLong => len = Size[m])
      /\ r \in Request /\ r.msg = m /\ r.block = b /\ r.left = len
  BY PackageType
<1>3. /\ s \in Sessions /\ m \notin asked /\ Bytes(m) \in Nat
      /\ write_queue[s] \in Seq(Request) /\ completed[s] \in Seq(Request)
      /\ sent[s] \in Seq(Byte) /\ total[s] \in Nat
      /\ start' = [start EXCEPT ![m] = total[s]] /\ total' = [total EXCEPT ![s] = tot]
      /\ wr' = wr \cup {m} /\ asked' = asked \cup {m}
      /\ UNCHANGED <<conn, broken, refused>> /\ conn[s] \in {"open", "shutting"}
  BY SendAssumption DEF Send, MaySend, TypeOK, Bytes, Byte
<1>4. /\ Accepted' = acc /\ m \notin Accepted /\ m \notin refused
      /\ start' \in [Msgs -> Nat] /\ start'[m] = total[s]
      /\ \A k \in Accepted : start'[k] = start[k]
  BY <1>3 DEF Accepted, TypeOK
<1>5. /\ memory' \in [Blocks -> Msgs \cup {Junk}] /\ spoiled' \subseteq Sessions
      /\ \A x \in Sessions \ spoiled' : Intact(write_queue[x], memory')
  BY <1>1, <1>2, OverwriteIntact
<1>6. \A x \in Sessions :
          /\ FitQueue(write_queue[x], x, acc)
          /\ x \notin broken => Linked(write_queue[x], Len(sent[x]), total[x], start')
          /\ x \notin spoiled => Ordered(sent[x], x, acc, start')
  <2> TAKE x \in Sessions
  <2>1. /\ write_queue[x] \in Seq(Request) /\ sent[x] \in Seq(Byte)
        /\ FitQueue(write_queue[x], x, Accepted)
        /\ x \notin broken => Linked(write_queue[x], Len(sent[x]), total[x], start)
        /\ x \notin spoiled => Ordered(sent[x], x, Accepted, start)
    BY DEF TypeOK, Byte, Shape, Chained, InOrderParts
  <2> QED
    BY <1>4, <2>1, AcceptKeeps
<1>7. /\ q \in Seq(Request) /\ Len(q) = Len(write_queue[s]) + 1
      /\ \A i \in 1 .. Len(write_queue[s]) : q[i] = write_queue[s][i]
      /\ q[Len(write_queue[s]) + 1] = r /\ Len(write_queue[s]) \in Nat
  BY <1>2, <1>3, AppendProperties
<1>8. FitQueue(q, s, acc)
  <2>1. Fits(r, s, acc)
    BY <1>2 DEF Fits
  <2>2. \A i \in 1 .. Len(write_queue[s]) : write_queue[s][i].msg # m
    BY <1>3, <1>4 DEF Shape, FitQueue, Fits
  <2>3. \A i \in 1 .. Len(q) : i \in 1 .. Len(write_queue[s]) \/ i = Len(write_queue[s]) + 1
    BY <1>7
  <2> HIDE DEF q, r
  <2>4. \A i \in 1 .. Len(q) : Fits(q[i], s, acc)
    BY <1>3, <1>6, <1>7, <2>1, <2>3 DEF FitQueue
  <2>5. \A i, j \in 1 .. Len(q) : i # j => q[i].msg # q[j].msg
    <3>1. \A i \in 1 .. Len(q) :
              \/ i \in 1 .. Len(write_queue[s]) /\ q[i].msg = write_queue[s][i].msg
              \/ i = Len(write_queue[s]) + 1 /\ q[i].msg = m
      BY <1>2, <1>7, <2>3
    <3>2. \A i, j \in 1 .. Len(write_queue[s]) :
              i # j => write_queue[s][i].msg # write_queue[s][j].msg
      BY <1>3, <1>6 DEF FitQueue
    <3> QED
      BY <2>2, <3>1, <3>2
  <2> QED
    BY <2>4, <2>5 DEF FitQueue
<1>9. s \notin broken => Linked(q, Len(sent[s]), tot, start')
  <2>1. Len(sent[s]) \in Nat
    BY <1>3
  <2> HIDE DEF r
  <2> QED
    BY <1>2, <1>3, <1>4, <1>6, <2>1, AppendLinked
<1>10. s \notin spoiled' => Intact(q, memory')
  <2>1. b # Null => memory'[b] = m
    BY <1>1, <1>2
  <2>2. \A i \in 1 .. Len(q) : i \in 1 .. Len(write_queue[s]) \/ i = Len(write_queue[s]) + 1
    BY <1>7
  <2> HIDE DEF q, r
  <2> QED
    <3>1. ASSUME s \notin spoiled', NEW i \in 1 .. Len(q), q[i].block # Null
          PROVE  memory'[q[i].block] = q[i].msg
      <4>1. CASE i \in 1 .. Len(write_queue[s])
        <5>1. q[i] = write_queue[s][i]
          BY <1>7, <4>1
        <5>2. Intact(write_queue[s], memory')
          BY <1>3, <1>5, <3>1
        <5> QED
          BY <3>1, <4>1, <5>1, <5>2 DEF Intact
      <4>2. CASE i = Len(write_queue[s]) + 1
        BY <1>2, <1>7, <2>1, <3>1, <4>2
      <4> QED
        BY <2>2, <4>1, <4>2
    <3> QED
      BY <3>1 DEF Intact
<1>11. Callbacks(q) = Callbacks(write_queue[s]) \cup {m}
  BY <1>2, <1>3, CallbacksAppend
<1>12. PICK n \in IF Idle(s) THEN Takes(s, q) ELSE {0} :
          IF Idle(s)
          THEN /\ write_queue' = [write_queue EXCEPT ![s] = Remaining(s, q, n)]
               /\ completed' = [completed EXCEPT ![s] = completed[s] \o Finished(s, q, n)]
               /\ sent' = [sent EXCEPT ![s] = sent[s] \o Emitted(q, n, memory')]
          ELSE /\ write_queue' = [write_queue EXCEPT ![s] = q]
               /\ UNCHANGED <<completed, sent>>
  BY <1>1 DEF UvWrite
<1> HIDE DEF q, r, tot, acc
\* What uv_write leaves, whether it wrote or not.
<1>13. PICK rest \in Seq(Request), comp \in Seq(Request), out \in Seq(Byte) :
          /\ write_queue' = [write_queue EXCEPT ![s] = rest]
          /\ completed' = [completed EXCEPT ![s] = comp]
          /\ sent' = [sent EXCEPT ![s] = out]
          /\ FitQueue(rest, s, acc)
          /\ Callbacks(rest) \cup Callbacks(comp)
                = Callbacks(write_queue[s]) \cup Callbacks(completed[s]) \cup {m}
          /\ Callbacks(rest) \cap Callbacks(comp) = {}
          /\ s \notin broken => Linked(rest, Len(out), tot, start')
          /\ s \notin spoiled' => Intact(rest, memory')
          /\ s \notin spoiled' => Ordered(out, s, acc, start')
  <2>0. \A k \in Callbacks(completed[s]) : k # m
    BY <1>3, <1>4 DEF Shape
  <2>1. CASE Idle(s)
    <3>1. n \in Takes(s, q)
      BY <1>12, <2>1
    <3>2. /\ Remaining(s, q, n) \in Seq(Request) /\ Finished(s, q, n) \in Seq(Request)
          /\ FitQueue(Remaining(s, q, n), s, acc)
          /\ Callbacks(q) = Callbacks(Finished(s, q, n)) \cup Callbacks(Remaining(s, q, n))
          /\ Callbacks(Finished(s, q, n)) \cap Callbacks(Remaining(s, q, n)) = {}
      BY <1>3, <1>7, <1>8, <3>1, WriteType, WriteFits
    <3>3. /\ completed[s] \o Finished(s, q, n) \in Seq(Request)
          /\ Callbacks(completed[s] \o Finished(s, q, n))
                = Callbacks(completed[s]) \cup Callbacks(Finished(s, q, n))
      BY <1>3, <3>2, CallbacksConcat, ConcatProperties
    <3>4. LET out == sent[s] \o Emitted(q, n, memory') IN
          /\ out \in Seq(Byte)
          /\ s \notin broken => Linked(Remaining(s, q, n), Len(out), tot, start')
          /\ Intact(q, memory') /\ Ordered(sent[s], s, acc, start')
                => Ordered(out, s, acc, start')
      BY <1>3, <1>4, <1>5, <1>7, <1>8, <1>9, <3>1, WriteOrdered
    <3>5. s \notin spoiled' => Intact(Remaining(s, q, n), memory')
      BY <1>3, <1>7, <1>10, <3>1, WriteIntact
    <3>6. Callbacks(completed[s]) \cap Callbacks(q) = {}
      <4>1. Callbacks(write_queue[s]) \cap Callbacks(completed[s]) = {}
        BY <1>3 DEF Shape
      <4> QED
        BY <1>11, <2>0, <4>1
    <3>7. s \notin spoiled' => s \notin spoiled
      BY <1>1
    <3>8. s \notin spoiled' => Ordered(sent[s] \o Emitted(q, n, memory'), s, acc, start')
      BY <1>3, <1>6, <1>10, <3>4, <3>7
    <3> USE <3>2, <3>3, <3>4
    <3> WITNESS Remaining(s, q, n) \in Seq(Request),
                completed[s] \o Finished(s, q, n) \in Seq(Request),
                sent[s] \o Emitted(q, n, memory') \in Seq(Byte)
    <3> QED
      BY <1>11, <1>12, <2>1, <3>2, <3>3, <3>4, <3>5, <3>6, <3>8
  <2>2. CASE ~Idle(s)
    <3>1. s \notin spoiled' => s \notin spoiled
      BY <1>1
    <3>2. completed' = [completed EXCEPT ![s] = completed[s]]
          /\ sent' = [sent EXCEPT ![s] = sent[s]]
      BY <1>12, <2>2 DEF TypeOK
    <3>3. Callbacks(q) \cap Callbacks(completed[s]) = {}
      <4>1. Callbacks(write_queue[s]) \cap Callbacks(completed[s]) = {}
        BY <1>3 DEF Shape
      <4> QED
        BY <1>11, <2>0, <4>1
    <3>4. s \notin spoiled' => Ordered(sent[s], s, acc, start')
      BY <1>3, <1>6, <3>1
    <3> USE <1>3, <1>7
    <3> WITNESS q \in Seq(Request), completed[s] \in Seq(Request), sent[s] \in Seq(Byte)
    <3> QED
      BY <1>8, <1>9, <1>10, <1>11, <1>12, <2>2, <3>2, <3>3, <3>4
  <2> QED
    BY <2>1, <2>2
<1>14. \A x \in Sessions :
          /\ write_queue'[x] = IF x = s THEN rest ELSE write_queue[x]
          /\ completed'[x] = IF x = s THEN comp ELSE completed[x]
          /\ sent'[x] = IF x = s THEN out ELSE sent[x]
          /\ total'[x] = IF x = s THEN tot ELSE total[x]
  BY <1>3, <1>13 DEF TypeOK
<1>15. TypeOK'
  <2>1. tot \in Nat
    BY <1>3 DEF tot
  <2> QED
    BY <1>3, <1>4, <1>5, <1>13, <2>1 DEF TypeOK, Byte
<1>16. Shape'
  <2>1. \A k \in Callbacks(write_queue[s]) \cup Callbacks(completed[s]) \cup {m} :
            k \in acc /\ To[k] = s
    <3>1. \A k \in Callbacks(write_queue[s]) : k \in Accepted /\ To[k] = s
      BY <1>3 DEF Shape, FitQueue, Fits, Callbacks
    <3> QED
      BY <1>3, <3>1 DEF Shape, acc
  <2>2. \A x \in Sessions : \A k \in Callbacks(completed[x]) : k \in acc /\ To[k] = x
    BY DEF Shape, acc
  <2>3. ASSUME NEW x \in Sessions
        PROVE  /\ FitQueue(write_queue'[x], x, acc)
               /\ \A k \in Callbacks(completed'[x]) : k \in acc /\ To[k] = x
               /\ Callbacks(write_queue'[x]) \cap Callbacks(completed'[x]) = {}
    <3>1. CASE x = s
      BY <1>13, <1>14, <2>1, <3>1
    <3>2. CASE x # s
      BY <1>6, <1>14, <2>2, <3>2 DEF Shape
    <3> QED
      BY <3>1, <3>2
  <2> QED
    BY <1>4, <2>3 DEF Shape
<1>17. RequestsExact'
  <2>1. \A x \in Sessions : Queued(x)' = IF x = s THEN Queued(s) \cup {m} ELSE Queued(x)
    BY <1>13, <1>14 DEF Queued
  <2> QED
    BY <1>3, <2>1 DEF RequestsExact
<1>18. ClosedEmpty'
  BY <1>3, <1>14 DEF ClosedEmpty
<1>19. Chained'
  <2>1. ASSUME NEW x \in Sessions \ broken
        PROVE  Linked(write_queue'[x], Len(sent'[x]), total'[x], start')
    <3>1. CASE x = s
      BY <1>13, <1>14, <2>1, <3>1
    <3>2. CASE x # s
      BY <1>6, <1>14, <2>1, <3>2
    <3> QED
      BY <3>1, <3>2
  <2> QED
    BY <1>3, <2>1 DEF Chained
<1>20. IntactQueues'
  BY <1>5, <1>13, <1>14 DEF IntactQueues
<1>21. InOrderParts'
  BY <1>1, <1>4, <1>6, <1>13, <1>14 DEF InOrderParts
<1> QED
  BY <1>3, <1>15, <1>16, <1>17, <1>18, <1>19, <1>20, <1>21
-----------------------------------------------------------------------------
(* The other steps.                                                         *)

\* A step that leaves the queues and the streams alone keeps what they say.
LEMMA QuietStep ==
    ASSUME Inv, UNCHANGED <<write_queue, completed, start, total, sent>>,
           Accepted' = Accepted, broken \subseteq broken', spoiled \subseteq spoiled',
           TypeOK', refused' \subseteq asked', RequestsExact', ClosedEmpty', IntactQueues'
    PROVE  Inv'
<1>1. Shape' /\ Chained' /\ InOrderParts'
  BY DEF Inv, Shape, Chained, InOrderParts
<1> QED
  BY <1>1 DEF Inv

LEMMA SendRefusedInv ==
    ASSUME Inv, NEW m \in Msgs, SendRefused(m)
    PROVE  Inv'
<1>1. PICK b \in BlocksFor(m) :
          /\ memory' = [c \in Blocks |-> IF c = b THEN m ELSE memory[c]]
          /\ spoiled' = spoiled \cup Overwritten(b)
  BY DEF SendRefused
<1>2. b \in Blocks \cup {Null}
  BY SendAssumption DEF BlocksFor, Blocks
<1>3. /\ memory' \in [Blocks -> Msgs \cup {Junk}] /\ spoiled' \subseteq Sessions
      /\ \A x \in Sessions \ spoiled' : Intact(write_queue[x], memory')
  BY <1>1, <1>2, OverwriteIntact
<1>4. /\ wr' = wr \cup {m} /\ asked' = asked \cup {m} /\ refused' = refused \cup {m}
      /\ UNCHANGED <<conn, broken, write_queue, completed, start, total, sent>>
      /\ m \notin asked
  BY DEF SendRefused, MaySend, uv
<1>5. TypeOK'
  BY <1>3, <1>4 DEF Inv, TypeOK
<1>6. Accepted' = Accepted /\ refused' \subseteq asked'
  BY <1>4 DEF Accepted, Inv
<1>7. RequestsExact'
  <2>1. UNION {Queued(x) : x \in Sessions}' = UNION {Queued(x) : x \in Sessions}
    BY <1>4 DEF Queued
  <2> QED
    BY <1>4, <2>1 DEF Inv, RequestsExact
<1>8. ClosedEmpty' /\ IntactQueues'
  BY <1>3, <1>4 DEF Inv, ClosedEmpty, IntactQueues
<1> QED
  BY <1>1, <1>4, <1>5, <1>6, <1>7, <1>8, QuietStep

LEMMA ReuseInv ==
    ASSUME Inv, NEW b \in Heap, Reuse(b)
    PROVE  Inv'
<1>1. /\ memory' = [c \in Blocks |-> IF c = b THEN Junk ELSE memory[c]]
      /\ spoiled' = spoiled \cup Overwritten(b) /\ b \in Blocks
      /\ UNCHANGED <<conn, broken, write_queue, completed, wr, asked, refused, start, total, sent>>
  BY DEF Reuse, Inv, TypeOK, Blocks, uv
<1>2. /\ memory' \in [Blocks -> Msgs \cup {Junk}] /\ spoiled' \subseteq Sessions
      /\ \A x \in Sessions \ spoiled' : Intact(write_queue[x], memory')
  BY <1>1, OverwriteIntact
<1>3. TypeOK' /\ Accepted' = Accepted /\ refused' \subseteq asked'
  BY <1>1, <1>2 DEF Inv, TypeOK, Accepted
<1>4. RequestsExact' /\ ClosedEmpty' /\ IntactQueues'
  BY <1>1, <1>2 DEF Inv, RequestsExact, Queued, ClosedEmpty, IntactQueues
<1> QED
  BY <1>1, <1>3, <1>4, QuietStep

LEMMA LifeInv ==
    ASSUME Inv, NEW s \in Sessions, Close(s) \/ Reset(s) \/ CloseCb(s)
    PROVE  Inv'
<1>1. UNCHANGED <<write_queue, completed, wr, memory, asked, refused, start, total, sent, spoiled>>
  BY DEF Close, Reset, CloseCb, ghosts
<1>2. broken \subseteq broken' /\ TypeOK' /\ ClosedEmpty'
  <2>1. CASE Close(s)
    BY <1>1, <2>1 DEF Close, Inv, TypeOK, ClosedEmpty
  <2>2. CASE Reset(s)
    BY <1>1, <2>2 DEF Reset, Inv, TypeOK, ClosedEmpty
  <2>3. CASE CloseCb(s)
    BY <1>1, <2>3 DEF CloseCb, Inv, TypeOK, ClosedEmpty
  <2> QED
    BY <2>1, <2>2, <2>3
<1>3. Accepted' = Accepted /\ refused' \subseteq asked' /\ RequestsExact' /\ IntactQueues'
  BY <1>1 DEF Inv, Accepted, RequestsExact, Queued, IntactQueues
<1> QED
  BY <1>1, <1>2, <1>3, QuietStep

LEMMA NextInv == Inv /\ [Next]_vars => Inv'
<1> SUFFICES ASSUME Inv, [Next]_vars PROVE Inv'
  OBVIOUS
<1>1. ASSUME NEW m \in Msgs, Send(m) PROVE Inv'
  BY <1>1, SendInv
<1>2. ASSUME NEW m \in Msgs, SendRefused(m) PROVE Inv'
  BY <1>2, SendRefusedInv
<1>3. ASSUME NEW b \in Heap, Reuse(b) PROVE Inv'
  BY <1>3, ReuseInv
<1>4. ASSUME NEW s \in Sessions, Close(s) \/ Reset(s) \/ CloseCb(s) PROVE Inv'
  BY <1>4, LifeInv
<1>5. ASSUME NEW s \in Sessions, PollOutSome(s) PROVE Inv'
  BY <1>5, PollOutInv DEF PollOutSome
<1>6. CASE UNCHANGED vars
  <2>1. UNCHANGED <<conn, broken, write_queue, completed, wr, memory, asked, refused, start, total, sent, spoiled>>
    BY <1>6 DEF vars, uv, ghosts
  <2>2. TypeOK' /\ Accepted' = Accepted /\ RequestsExact' /\ ClosedEmpty' /\ IntactQueues'
    BY <2>1 DEF Inv, TypeOK, Accepted, RequestsExact, Queued, ClosedEmpty, IntactQueues
  <2> QED
    BY <2>1, <2>2, QuietStep DEF Inv
<1> QED
  BY <1>1, <1>2, <1>3, <1>4, <1>5, <1>6 DEF Next

LEMMA InvFlushed == Inv => Flushed
<1> SUFFICES ASSUME Inv, NEW s \in Sessions \ broken, conn[s] \in {"closing", "closed"}
             PROVE  Len(sent[s]) = total[s]
  BY DEF Flushed
<1>1. write_queue[s] = <<>> /\ Len(<<>>) = 0
  BY EmptySeq DEF Inv, ClosedEmpty
<1>2. Linked(write_queue[s], Len(sent[s]), total[s], start)
  BY DEF Inv, Chained
<1> QED
  BY <1>1, <1>2 DEF Linked

LEMMA SpecInv == Spec => []Inv
BY InitInv, NextInv, PTL DEF Spec

\* The write path of every session keeps its types: no request has fewer than 0
\* bytes left, however the socket takes them (uv__write, stream.c:867-872).
THEOREM SendTypes == Spec => []TypeOK
<1>1. Inv => TypeOK
  BY DEF Inv
<1> QED
  BY <1>1, SpecInv, PTL

\* What goes out on a connection is what send_data accepted for it, byte by byte
\* and in order, unless a queued block was overwritten (session_uv.cpp:83-115).
THEOREM SendInOrder == Spec => []InOrder
<1>1. Inv => InOrder
  BY OrderedIsInOrder DEF Inv
<1> QED
  BY <1>1, SpecInv, PTL

\* A session whose connection holds is closed when all it accepted went out, what
\* was sent after session_uv::close included (stream.c:658-687).
THEOREM SendFlushed == Spec => []Flushed
BY InvFlushed, SpecInv, PTL

\* The uv_write_t of a message is in use exactly as long as libuv has it, but for
\* those uv_write refused (session_uv.cpp:30-36, 86).
THEOREM SendRequestsExact == Spec => []RequestsExact
<1>1. Inv => RequestsExact
  BY DEF Inv
<1> QED
  BY <1>1, SpecInv, PTL
=============================================================================
