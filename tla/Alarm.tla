------------------------------- MODULE Alarm -------------------------------
(***************************************************************************)
(* What a timer owes its client: as many calls as were asked for, or calls *)
(* for ever, and none once they have been made or the timer is cancelled.  *)
(***************************************************************************)
EXTENDS Integers

CONSTANT Timers  \* the alarms

VARIABLE owed   \* the calls each alarm still owes; any number below 0: for ever

Init == owed = [t \in Timers |-> 0]

Ask(t) ==
    /\ owed[t] = 0 /\ owed'[t] # 0
    /\ owed' = [owed EXCEPT ![t] = owed'[t]]

Call(t) ==
    /\ owed[t] > 0
    /\ owed' = [owed EXCEPT ![t] = @ - 1]

Cancel(t) ==
    /\ owed[t] # 0
    /\ owed' = [owed EXCEPT ![t] = 0]

Next == \E t \in Timers : Ask(t) \/ Call(t) \/ Cancel(t)

Spec == Init /\ [][Next]_owed
=============================================================================
