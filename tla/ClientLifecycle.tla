--------------------------- MODULE ClientLifecycle ---------------------------
(***************************************************************************)
(* What the server owes every connection: it arrives, its leaving is       *)
(* announced to the services once, and only then does its session vanish.  *)
(***************************************************************************)
CONSTANT Clients

VARIABLE stage   \* where each connection stands

Init == stage = [c \in Clients |-> "away"]

Move(c, from, to) ==
    /\ stage[c] = from
    /\ stage' = [stage EXCEPT ![c] = to]

Arrive(c) == Move(c, "away", "present")
Leave(c) == Move(c, "present", "left")
Vanish(c) == Move(c, "left", "gone")

Next == \E c \in Clients : Arrive(c) \/ Leave(c) \/ Vanish(c)

Spec == Init /\ [][Next]_stage
=============================================================================
