----------------------------- MODULE MCWsStream -----------------------------
\* A byte has 8 values, a frame of 2 bytes or more a longer length, recv_buf 10
\* bytes.  The peer sends frames shorter than recv_buf, as long as it and longer,
\* then a close frame, and goes on sending.
EXTENDS WsStream, SequencesExt

Bit(a, k) == (a \div (2 ^ k)) % 2

MCXor ==
    [a \in 0 .. 7 |-> [b \in 0 .. 7 |->
        LET Digit(k) == (Bit(a, k) + Bit(b, k)) % 2
        IN  Digit(0) + 2 * Digit(1) + 4 * Digit(2)]]

Frame(op, first, body) ==
    [op |-> op, mask |-> [i \in 0 .. 3 |-> (first + 3 * i) % 8], body |-> body]

MCFrames == <<
    Frame(1, 3, <<5>>),
    Frame(2, 6, <<1, 7>>),
    Frame(1, 1, <<6, 1, 5, 0, 3>>),
    Frame(1, 5, <<>>),
    Frame(5, 2, <<>>),
    Frame(2, 4, <<3>>)>>

PeerWire == FlattenSeq([k \in 1 .. Len(MCFrames) |-> Encode(MCFrames[k])])

PeerStart[k \in 1 .. Len(MCFrames) + 1] ==
    IF k = 1 THEN 0 ELSE PeerStart[k - 1] + Len(Encode(MCFrames[k - 1]))

\* What the .cfg names is evaluated at each use, PeerWire and PeerStart once.
MCWire == PeerWire
MCStart == PeerStart
=============================================================================
