----------------------------- MODULE MCSendPath -----------------------------
\* Two sessions: one is sent a message that is too long before or after one that
\* is not, the other the reply to its handshake and then a message.  With one
\* heap block a package is overwritten by the other session's or by other code.
EXTENDS SendPath

CONSTANTS s1, s2, r1, m1, m2, big

MCSessions == {s1, s2}
MCReplies == {r1}
MCTooLong == {big}
MCMsgs == {r1, m1, m2, big}
MCTo == [m \in MCMsgs |-> IF m \in {r1, m2} THEN s2 ELSE s1]
MCSize == [m \in MCMsgs |-> IF m \in {m1, m2} THEN 2 ELSE 1]
=============================================================================
