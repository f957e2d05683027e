---------------------------- MODULE MCTcpStream ----------------------------
\* A byte has 4 values and recv_buf 8 bytes, so that a package may be longer
\* than the buffer and recved may have a low and a high byte.  The peer sends
\* packages of every kind: shorter than the buffer, as long as it, longer.
EXTENDS TcpStream

MCSizes == <<3, 8, 5, 11, 2, 9, 4>>

MCStart ==
    LET Sum[k \in 1 .. Len(MCSizes) + 1] ==
            IF k = 1 THEN 0 ELSE Sum[k - 1] + MCSizes[k - 1]
    IN  Sum

\* The bodies hold varied bytes, so that a desynchronised loop reads headers of
\* many sizes in them.
StartOf(p) == {k \in 1 .. Len(MCSizes) : p = MCStart[k]}

MCStream ==
    [p \in 0 .. MCStart[Len(MCSizes) + 1] - 1 |->
        IF StartOf(p) # {} THEN MCSizes[CHOOSE k \in StartOf(p) : TRUE] % BYTE
        ELSE IF StartOf(p - 1) # {}
             THEN MCSizes[CHOOSE k \in StartOf(p - 1) : TRUE] \div BYTE
             ELSE (p * p + (p \div 3)) % BYTE]
=============================================================================
