---------------------------- MODULE PacketChannel ----------------------------
(***************************************************************************)
(* What the framing of a byte stream is for: the receiver is handed the    *)
(* messages of the sender, each whole, in order and once.  A channel that  *)
(* loses count promises nothing any more.                                  *)
(***************************************************************************)
EXTENDS Integers, Sequences

CONSTANT Messages   \* the sequence of messages the sender sends

VARIABLES received, \* the messages handed over so far
          lost      \* the receiver has lost count of its input

Init == received = <<>> /\ lost = FALSE

Hand ==
    /\ ~lost
    /\ Len(received) < Len(Messages)
    /\ received' = Append(received, Messages[Len(received) + 1])
    /\ UNCHANGED lost

LoseCount == ~lost /\ lost' = TRUE /\ UNCHANGED received

Next == Hand \/ LoseCount \/ (lost /\ lost')

Spec == Init /\ [][Next]_<<received, lost>>
=============================================================================
